---------------------------- MODULE Spec2Model ----------------------------
(***************************************************************************)
(* A model of the NPSolver engine of src/src/solver.js and of the inline   *)
(* NPSolver of the demonstration page (src/unnamed/part_000).               *)
(*                                                                         *)
(* JavaScript numbers are modelled in fixed point: a real x is the integer *)
(* x * SCALE, truncated.  NaN is the distinguished value NaN, and every    *)
(* arithmetic operator and comparison treats it as IEEE-754 does (NaN      *)
(* propagates through arithmetic, every comparison with NaN is false).     *)
(***************************************************************************)
EXTENDS Integers, Sequences, FiniteSets, TLC

(***************************************************************************)
(* Number representation                                                   *)
(***************************************************************************)
\* fixed-point resolution of the model: 1.0 is SCALE
SCALE == 10 * 100

\* the not-a-number value (undefined * k, NaN + k, ...)
NaN == 0 - 1000000000

\* this.PHI = 1.618033988749895, at resolution MICRO
PHI_MICRO == 1618034

\* the resolution the sampler's products are evaluated at before they are
\* rounded to SCALE: (PHI - 1) * PHI is 1, and the fraction of a product near an
\* integer needs the digits that SCALE drops
MICRO == SCALE * SCALE

\* this.PHI at resolution SCALE
PHI == PHI_MICRO \div SCALE

\* this.DIMENSIONS = 11
DIMENSIONS == 11

\* the tick-stack capacity of _pushToTickStack
TICK_CAPACITY == 100

\* Math.PI
PI == 3142

IsNaN(x) == x = NaN

Add(a, b) == IF IsNaN(a) \/ IsNaN(b) THEN NaN ELSE a + b

Sub(a, b) == IF IsNaN(a) \/ IsNaN(b) THEN NaN ELSE a - b

\* a fixed-point number times an integer
MulInt(a, k) == IF IsNaN(a) THEN NaN ELSE a * k

\* the product of two fixed-point numbers
MulFP(a, b) == IF IsNaN(a) \/ IsNaN(b) THEN NaN ELSE (a * b) \div SCALE

\* x % 1: the remainder has the sign of x
Frac(x) ==
    IF IsNaN(x) THEN NaN ELSE IF x < 0 THEN 0 - ((0 - x) % SCALE) ELSE x % SCALE

\* a < b
Lt(a, b) == ~IsNaN(a) /\ ~IsNaN(b) /\ a < b

Abs(x) == IF IsNaN(x) THEN NaN ELSE IF x < 0 THEN 0 - x ELSE x

Min2(a, b) == IF a < b THEN a ELSE b

Max2(a, b) == IF a > b THEN a ELSE b

RECURSIVE Pow2(_)
Pow2(k) == IF k = 0 THEN 1 ELSE 2 * Pow2(k - 1)

\* floor(log2(n)) of an integer n >= 1
RECURSIVE FloorLog2(_)
FloorLog2(n) == IF n < 2 THEN 0 ELSE 1 + FloorLog2(n \div 2)

\* the fraction bits of log2 of a mantissa m in [1, 2), m at resolution 10 * SCALE,
\* by repeated squaring; bit is the weight of the next bit, at resolution SCALE
RECURSIVE Log2Frac(_, _)
Log2Frac(m, bit) ==
    IF bit = 0 THEN 0
    ELSE LET sq == (m * m) \div (10 * SCALE)
         IN IF sq >= 20 * SCALE
            THEN bit + Log2Frac(sq \div 2, bit \div 2)
            ELSE Log2Frac(sq, bit \div 2)

\* Math.log2(n) of an integer n >= 1
Log2(n) ==
    LET k == FloorLog2(n)
    IN k * SCALE + Log2Frac((n * 10 * SCALE) \div Pow2(k), SCALE \div 2)

\* Math.ceil of a fixed-point number, as an integer
Ceil(x) == IF x % SCALE = 0 THEN x \div SCALE ELSE (x \div SCALE) + 1

\* Math.log10(n): log2(n) / log2(10)
Log10(n) == (Log2(n) * SCALE) \div 3322

\* Math.sin(x) of a fixed-point angle x >= 0 (Bhaskara's rational approximation
\* on each half period)
Sin(x) ==
    LET t == x % (2 * PI)
        h == IF t >= PI THEN t - PI ELSE t
        p == h * (PI - h)
        s == (16 * p) \div ((5 * PI * PI - 4 * p) \div SCALE)
    IN IF t >= PI THEN 0 - s ELSE s

\* floor(sqrt(x)) of an integer x >= 0, by bisection on [lo, hi]
RECURSIVE SqrtIn(_, _, _)
SqrtIn(x, lo, hi) ==
    IF lo >= hi THEN lo
    ELSE LET mid == (lo + hi + 1) \div 2
         IN IF mid * mid <= x THEN SqrtIn(x, mid, hi) ELSE SqrtIn(x, lo, mid - 1)

\* Math.sqrt, on integers
Sqrt(x) == SqrtIn(x, 0, Min2(x, 46340))

Range(s) == {s[i] : i \in 1..Len(s)}


\* 0-based read of a JavaScript array; a read past the end is undefined, which
\* every arithmetic use turns into NaN
At(arr, i) == IF i >= 0 /\ i < Len(arr) THEN arr[i + 1] ELSE NaN

(***************************************************************************)
(* Engine state (src/src/solver.js, constructor)                           *)
(***************************************************************************)
VARIABLES
    tickStack,      \* this.tickStack: DIMENSIONS windows of recent values
    patternCache,   \* this.patternCache: key -> pattern
    cycleCount,     \* this.cycleCount
    driftState,     \* this.driftState
    result,         \* what the last solve call returned (or threw)
    lastTrace,      \* observation of the last solve call's pattern stage
    prevTrace,      \* observation of the call before it
    appended,       \* every value ever pushed to each window, in push order
    computedFor,    \* key -> the instance kind and size its entry was computed for
    implementation, \* which NPSolver class is loaded: "solver.js" or "index.html"
    asked,          \* the instance of the last solve call
    probe           \* a direct call of one helper: its arguments and what it returned

vars == <<tickStack, patternCache, cycleCount, driftState, result,
          lastTrace, prevTrace, appended, computedFor, implementation, asked, probe>>

(***************************************************************************)
(* VectorSampler: _initializeSolutionSpace, _generateSolutionVector        *)
(***************************************************************************)
\* problem.dimensions || this.DIMENSIONS (0 stands for an absent field)
dimensionsOf(problem) ==
    IF problem.dimensions = 0 THEN DIMENSIONS ELSE problem.dimensions

\* Math.ceil(Math.log2(problem.size) * this.PHI)
vectorCount(problem) == Ceil(MulFP(Log2(problem.size), PHI))

\* the product of two numbers at resolution MICRO, by halves of SCALE digits
MulMicro(a, b) ==
    LET a1 == a \div SCALE
        a0 == a % SCALE
        b1 == b \div SCALE
        b0 == b % SCALE
    IN a1 * b1 + ((a1 * b0 + a0 * b1) * SCALE + a0 * b0) \div MICRO

\* (k * this.PHI) % 1 for an integer k >= 0, at resolution MICRO
PhiPhase(k) == (k * PHI_MICRO) % MICRO

\* a sampler that refuses an instance of fewer than DIMENSIONS dimensions
samplingThrowsBelowDefault(problem) ==
    dimensionsOf(problem) < DIMENSIONS /\ vectorCount(problem) >= 1

\* new Float64Array(length) throws a RangeError for a negative length; the
\* constructor is reached only if a vector is generated at all
samplingThrows(problem) == dimensionsOf(problem) < 0 /\ vectorCount(problem) >= 1

generateSolutionVector(problem, seed) ==
    LET phaseFactor == PhiPhase(seed)
    IN [i \in 1..dimensionsOf(problem) |->
          (MulMicro(i * phaseFactor, PHI_MICRO) % MICRO) \div SCALE]

initializeSolutionSpace(problem) ==
    [i \in 1..vectorCount(problem) |-> generateSolutionVector(problem, i - 1)]

(***************************************************************************)
(* DriftTransformer: _applyQuantumDrift, _calculateDriftFactor,            *)
(* _pushToTickStack                                                        *)
(***************************************************************************)
calculateDriftFactor(problem, vectorIndex, dimensionIndex) ==
    LET base == ((PhiPhase(vectorIndex) + dimensionIndex * MICRO) % MICRO) \div SCALE
        sizeFactor == (SCALE * SCALE) \div (SCALE + Log10(problem.size))
    IN (base * sizeFactor * 2) \div (SCALE * 10)

\* Math.sin(cycle * PHI) * 0.1
driftStateAt(cycle) == (Sin(cycle * PHI) * 100) \div SCALE

driftVector(problem, vector, vectorIndex, drift) ==
    [j \in 1..Len(vector) |->
        LET driftFactor == calculateDriftFactor(problem, vectorIndex, j - 1)
            moved == vector[j] + ((vector[j] * driftFactor * drift) \div (SCALE * SCALE))
        IN Max2(0, Min2(SCALE, moved))]

\* a push that drops the newest value, not the oldest, beyond capacity
pushDroppingNewest(stack, vector) ==
    [d \in 1..DIMENSIONS |->
        IF d <= Min2(Len(vector), DIMENSIONS)
        THEN LET pushed == Append(stack[d], vector[d])
             IN IF Len(pushed) > TICK_CAPACITY
                THEN SubSeq(pushed, 1, Len(pushed) - 1)
                ELSE pushed
        ELSE stack[d]]

\* a push that leaves out the last component of the vector
pushAllButLast(stack, vector) ==
    [d \in 1..DIMENSIONS |->
        IF d <= Min2(Len(vector) - 1, DIMENSIONS)
        THEN LET pushed == Append(stack[d], vector[d])
             IN IF Len(pushed) > TICK_CAPACITY THEN Tail(pushed) ELSE pushed
        ELSE stack[d]]

pushToTickStack(stack, vector) ==
    [d \in 1..DIMENSIONS |->
        IF d <= Min2(Len(vector), DIMENSIONS)
        THEN LET pushed == Append(stack[d], vector[d])
             IN IF Len(pushed) > TICK_CAPACITY THEN Tail(pushed) ELSE pushed
        ELSE stack[d]]

\* a loop that pushes the vectors from the last to the first
RECURSIVE pushAllNewestFirst(_, _, _)
pushAllNewestFirst(stack, vectors, i) ==
    IF i > Len(vectors) THEN stack
    ELSE pushAllNewestFirst(pushToTickStack(stack, vectors[Len(vectors) + 1 - i]),
                            vectors, i + 1)

RECURSIVE pushAll(_, _, _)
pushAll(stack, vectors, i) ==
    IF i > Len(vectors) THEN stack
    ELSE pushAll(pushToTickStack(stack, vectors[i]), vectors, i + 1)

\* the drifted vectors, and the engine fields the drift stage writes
applyQuantumDrift(space, problem, stack, cycle) ==
    LET drift == driftStateAt(cycle + 1)
        vectors == [i \in 1..Len(space) |-> driftVector(problem, space[i], i - 1, drift)]
    IN [vectors |-> vectors,
        tickStack |-> pushAll(stack, vectors, 1),
        cycleCount |-> cycle + 1,
        driftState |-> drift]

(***************************************************************************)
(* PatternCache: _generateProblemKey, _isPatternValid                      *)
(***************************************************************************)
\* A key is the string `${type}-${size}-${dimensions}`.  It is held as the list of
\* its '-'-separated segments (what split('-') returns); a text segment is
\* [text |-> t, num |-> -1] and a decimal one [text |-> "", num |-> n].
Text(t) == [text |-> t, num |-> 0 - 1]

Num(n) == [text |-> "", num |-> n]

\* the '-'-separated segments of the four kinds' type strings
typeSegments(type) ==
    CASE type = "graph-coloring" -> <<Text("graph"), Text("coloring")>>
      [] type = "subset-sum" -> <<Text("subset"), Text("sum")>>
      [] OTHER -> <<Text(type)>>

\* a key that buckets the size to a multiple of 5
bucketedProblemKey(problem) ==
    typeSegments(problem.type)
        \o <<Num((problem.size \div 5) * 5), Num(dimensionsOf(problem))>>

\* a key of the kind and the size only
keyOfKindAndSize(problem) == typeSegments(problem.type) \o <<Num(problem.size)>>

generateProblemKey(problem) ==
    typeSegments(problem.type) \o <<Num(problem.size), Num(dimensionsOf(problem))>>

\* parseInt(segment, 10)
parseInt(segment) == IF segment.text = "" THEN segment.num ELSE NaN

\* a validity test that rejects a stored pattern without dimension pairs
isPatternWithPairs(pattern, problem) ==
    LET cachedKey == generateProblemKey(problem)
        cachedType == cachedKey[1].text
        cachedSize == parseInt(cachedKey[2])
    IN /\ cachedType = problem.type
       /\ ~IsNaN(cachedSize)
       /\ problem.size > 0
       /\ 5 * Abs(cachedSize - problem.size) < problem.size
       /\ pattern.primaryDimensions # <<>>

isPatternValid(pattern, problem) ==
    LET cachedKey == generateProblemKey(problem)
        cachedType == cachedKey[1].text
        cachedSize == parseInt(cachedKey[2])
    IN /\ cachedType = problem.type
       /\ ~IsNaN(cachedSize)
       /\ problem.size > 0
       /\ 5 * Abs(cachedSize - problem.size) < problem.size

(***************************************************************************)
(* Array.prototype.sort with a comparator (a, b) => key(a) - key(b): a     *)
(* stable sort by ascending key; a NaN comparison result counts as 0.      *)
(* The result lists the 1-based positions of the input in sorted order.    *)
(***************************************************************************)
\* the first position from i on, outside `taken`, whose key no other such
\* position undercuts; best is the candidate so far (0: none yet)
RECURSIVE firstLeast(_, _, _, _)
firstLeast(keys, taken, i, best) ==
    IF i > Len(keys) THEN best
    ELSE IF i \in taken THEN firstLeast(keys, taken, i + 1, best)
    ELSE IF best = 0 \/ Lt(keys[i], keys[best]) THEN firstLeast(keys, taken, i + 1, i)
    ELSE firstLeast(keys, taken, i + 1, best)

\* the first `count` positions of the sorted order: sort(...).slice(0, count)
RECURSIVE sortedPrefix(_, _, _)
sortedPrefix(keys, acc, count) ==
    IF Len(acc) >= count \/ Len(acc) >= Len(keys) THEN acc
    ELSE sortedPrefix(keys, Append(acc, firstLeast(keys, Range(acc), 1, 0)), count)

\* a sort that puts the first element wherever a key is NaN
sortLosingNaN(keys) ==
    LET order == sortedPrefix(keys, <<>>, Len(keys))
    IN [k \in 1..Len(order) |-> IF IsNaN(keys[order[k]]) THEN 1 ELSE order[k]]

sortOrder(keys) == sortedPrefix(keys, <<>>, Len(keys))

\* a comparator a - b, which sorts ascending
Keep(x) == x

Neg(x) == IF IsNaN(x) THEN NaN ELSE 0 - x

(***************************************************************************)
(* CorrelationAnalyzer: _calculateCorrelation,                             *)
(* _calculateDimensionalCorrelations                                       *)
(***************************************************************************)
RECURSIVE SumProducts(_, _, _)
SumProducts(a, b, i) ==
    IF i > Len(a) THEN 0 ELSE a[i] * b[i] + SumProducts(a, b, i + 1)

RECURSIVE Pow10(_)
Pow10(k) == IF k = 0 THEN 1 ELSE 10 * Pow10(k - 1)

\* the first `digits` decimals of rem / den, for 0 <= rem < den
RECURSIVE Decimals(_, _, _)
Decimals(rem, den, digits) ==
    IF digits = 0 THEN 0
    ELSE LET x == rem * 10
         IN (x \div den) * Pow10(digits - 1) + Decimals(x % den, den, digits - 1)

\* num / den at resolution SCALE, for den > 0
Quotient(num, den) ==
    LET a == Abs(num)
        q == (a \div den) * SCALE + Decimals(a % den, den, 3)
    IN IF num < 0 THEN 0 - q ELSE q

\* Pearson's r.  With n = series1.length, num and den of the source are
\* numN / n and sqrt(varA * varB) / n, so that r = numN / sqrt(varA * varB).
calculateCorrelation(series1, series2) ==
    IF Len(series1) # Len(series2) \/ Len(series1) = 0 THEN 0
    ELSE LET n == Len(series1)
             ones == [i \in 1..n |-> 1]
             sum1 == SumProducts(series1, ones, 1)
             sum2 == SumProducts(series2, ones, 1)
             sum1Sq == SumProducts(series1, series1, 1)
             sum2Sq == SumProducts(series2, series2, 1)
             pSum == SumProducts(series1, series2, 1)
             numN == n * pSum - sum1 * sum2
             varA == n * sum1Sq - sum1 * sum1
             varB == n * sum2Sq - sum2 * sum2
             den == (Sqrt(varA * 64) * Sqrt(varB * 64)) \div 64
         IN IF den = 0 THEN 0 ELSE Quotient(numN, den)

\* slice(-10)
lastTen(series) == SubSeq(series, Len(series) - 9, Len(series))

\* the pairs (i, j), i < j, in the order the two nested loops visit them
RECURSIVE dimensionPairs(_, _)
dimensionPairs(i, j) ==
    IF i >= DIMENSIONS - 1 THEN <<>>
    ELSE IF j >= DIMENSIONS THEN dimensionPairs(i + 1, i + 2)
    ELSE <<(<<i, j>>)>> \o dimensionPairs(i, j + 1)

\* an analyzer that takes a pair whose histories hold 10 samples or more
correlationsFromTen(stack) ==
    LET all == dimensionPairs(0, 1)
        qualifies(p) == Len(stack[p[1] + 1]) >= 10 /\ Len(stack[p[2] + 1]) >= 10
        kept == SelectSeq(all, qualifies)
    IN [k \in 1..Len(kept) |->
          [dimensions |-> kept[k],
           correlation |-> calculateCorrelation(lastTen(stack[kept[k][1] + 1]),
                                                lastTen(stack[kept[k][2] + 1]))]]

calculateDimensionalCorrelations(stack) ==
    LET all == dimensionPairs(0, 1)
        qualifies(p) == Len(stack[p[1] + 1]) > 10 /\ Len(stack[p[2] + 1]) > 10
        kept == SelectSeq(all, qualifies)
    IN [k \in 1..Len(kept) |->
          [dimensions |-> kept[k],
           correlation |-> calculateCorrelation(lastTen(stack[kept[k][1] + 1]),
                                                lastTen(stack[kept[k][2] + 1]))]]

(***************************************************************************)
(* Projector: _projectVectorOntoPatternSpace                               *)
(***************************************************************************)
\* this.PHI ** i
RECURSIVE PhiPow(_)
PhiPow(i) == IF i = 0 THEN SCALE ELSE MulFP(PhiPow(i - 1), PHI)

RECURSIVE projectionValue(_, _)
projectionValue(coordinates, i) ==
    IF i > Len(coordinates) THEN 0
    ELSE Add(MulFP(coordinates[i], PhiPow(i - 1)), projectionValue(coordinates, i + 1))

projectVectorOntoPatternSpace(vector, primaryDimensions, correlationStrengths) ==
    LET coordinates ==
            [i \in 1..Len(primaryDimensions) |->
                LET dim1 == primaryDimensions[i][1]
                    dim2 == primaryDimensions[i][2]
                    strength == Abs(correlationStrengths[i])
                    both == Add(At(vector, dim1), At(vector, dim2))
                IN IF IsNaN(both) THEN NaN ELSE (both * strength) \div (2 * SCALE)]
    IN [coordinates |-> coordinates, value |-> projectionValue(coordinates, 1)]

(***************************************************************************)
(* _extractPatterns                                                        *)
(***************************************************************************)
\* the pattern computed from the histories (the cache-miss branch)
computePattern(vectors, stack) ==
    LET correlations == calculateDimensionalCorrelations(stack)
        order == sortedPrefix([k \in 1..Len(correlations) |->
                                  Neg(Abs(correlations[k].correlation))], <<>>, 3)
        top == [k \in 1..Len(order) |-> correlations[order[k]]]
        primaryDimensions == [k \in 1..Len(top) |-> top[k].dimensions]
        correlationStrengths == [k \in 1..Len(top) |-> top[k].correlation]
    IN [primaryDimensions |-> primaryDimensions,
        correlationStrengths |-> correlationStrengths,
        vectorProjections |->
            [v \in 1..Len(vectors) |->
                projectVectorOntoPatternSpace(vectors[v], primaryDimensions,
                                              correlationStrengths)]]

\* whether the lookup returns the cached pattern
cacheHit(cache, problem) ==
    LET problemKey == generateProblemKey(problem)
    IN /\ problemKey \in DOMAIN cache
       /\ isPatternValid(cache[problemKey], problem)

\* a lookup that, on a miss, empties the cache before it stores the new pattern
extractPatternsEvicting(vectors, problem, cache, stack) ==
    LET problemKey == generateProblemKey(problem)
    IN IF cacheHit(cache, problem)
       THEN [patterns |-> cache[problemKey], cache |-> cache, analyzed |-> FALSE]
       ELSE LET patterns == computePattern(vectors, stack)
            IN [patterns |-> patterns,
                cache |-> [k \in {problemKey} |-> patterns],
                analyzed |-> TRUE]

\* the pattern returned, the cache afterwards, and whether the analyzer ran
extractPatterns(vectors, problem, cache, stack) ==
    LET problemKey == generateProblemKey(problem)
    IN IF cacheHit(cache, problem)
       THEN [patterns |-> cache[problemKey], cache |-> cache, analyzed |-> FALSE]
       ELSE LET patterns == computePattern(vectors, stack)
            IN [patterns |-> patterns,
                cache |-> [k \in DOMAIN cache \cup {problemKey} |->
                              IF k = problemKey THEN patterns ELSE cache[k]],
                analyzed |-> TRUE]

(***************************************************************************)
(* Collapser: _collapseSolution                                            *)
(***************************************************************************)
\* Math.ceil(Math.log2(problem.size))
topCount(problem) == Ceil(Log2(problem.size))

topProjections(patterns, problem) ==
    LET all == patterns.vectorProjections
        order == sortedPrefix([k \in 1..Len(all) |-> Neg(all[k].value)], <<>>,
                              topCount(problem))
    IN [k \in 1..Len(order) |-> all[order[k]]]

(***************************************************************************)
(* HeuristicStrategy variants                                              *)
(***************************************************************************)
\* the sum of a list of numbers, accumulated from 0
RECURSIVE Total(_, _)
Total(terms, i) == IF i > Len(terms) THEN 0 ELSE Add(terms[i], Total(terms, i + 1))

\* Math.sqrt(dx * dx + dy * dy)
calculateDistance(point1, point2) ==
    LET dx == point1.x - point2.x
        dy == point1.y - point2.y
    IN Sqrt((dx * dx + dy * dy) * SCALE * SCALE)

\* a tour length that leaves out the edge from the last city back to the first
solveTSPOpenPath(projections, problem) ==
    LET cities == problem.cities
        n == Len(cities)
        orderValue(i) ==
            Total([p \in 1..Len(projections) |->
                      Frac(Add(MulInt(At(projections[p].coordinates, 0), i + 1),
                               MulInt(At(projections[p].coordinates, 1), i)))], 1)
        order == sortOrder([k \in 1..n |-> orderValue(k - 1)])
        cityOrder == [k \in 1..n |-> order[k] - 1]
    IN [path |-> cityOrder,
        distance |->
            Total([i \in 1..(n - 1) |->
                      calculateDistance(cities[cityOrder[i] + 1],
                                        cities[cityOrder[i + 1] + 1])], 1)]

solveTSP(projections, problem) ==
    LET cities == problem.cities
        n == Len(cities)
        orderValue(i) ==
            Total([p \in 1..Len(projections) |->
                      Frac(Add(MulInt(At(projections[p].coordinates, 0), i + 1),
                               MulInt(At(projections[p].coordinates, 1), i)))], 1)
        order == sortOrder([k \in 1..n |-> orderValue(k - 1)])
        cityOrder == [k \in 1..n |-> order[k] - 1]
    IN [path |-> cityOrder,
        distance |->
            Total([i \in 1..n |->
                      calculateDistance(cities[cityOrder[i] + 1],
                                        cities[cityOrder[(i % n) + 1] + 1])], 1)]

\* nodeValues.indexOf(Math.min(...nodeValues)): -1 for an empty list and for a
\* list holding NaN (Math.min is then Infinity or NaN, which indexOf never finds)
indexOfMin(nodeValues) ==
    IF Len(nodeValues) = 0 \/ \E c \in 1..Len(nodeValues) : IsNaN(nodeValues[c])
    THEN 0 - 1
    ELSE (CHOOSE c \in 1..Len(nodeValues) :
            /\ \A d \in 1..Len(nodeValues) : nodeValues[c] <= nodeValues[d]
            /\ \A d \in 1..(c - 1) : nodeValues[d] # nodeValues[c]) - 1

\* the accumulated score of each color for node i, given the coloring so far
nodeValuesOf(projections, problem, coloring, i) ==
    [c \in 1..problem.maxColors |->
        LET color == c - 1
            projected ==
                Total([p \in 1..Len(projections) |->
                          Frac(Add(MulInt(At(projections[p].coordinates, 0), i),
                                   MulInt(At(projections[p].coordinates, 1), color)))], 1)
            penalized == Cardinality({j \in 1..Len(problem.graph) :
                                         /\ problem.graph[i + 1][j] = 1
                                         /\ coloring[j] = color})
        IN Add(projected, penalized * 100 * SCALE)]

RECURSIVE colorFrom(_, _, _, _)
colorFrom(projections, problem, coloring, i) ==
    IF i >= Len(problem.graph) THEN coloring
    ELSE colorFrom(projections, problem,
                   [coloring EXCEPT ![i + 1] =
                       indexOfMin(nodeValuesOf(projections, problem, coloring, i))],
                   i + 1)

\* Math.max(...coloring)
RECURSIVE MaxOf(_, _)
MaxOf(s, i) == IF i = Len(s) THEN s[i] ELSE Max2(s[i], MaxOf(s, i + 1))

solveGraphColoring(projections, problem) ==
    LET n == Len(problem.graph)
        coloring == colorFrom(projections, problem, [k \in 1..n |-> 0], 0)
    IN [coloring |-> coloring, colorCount |-> MaxOf(coloring, 1) + 1]

\* how many literals of the clauses name variable i with the given polarity
occurrences(clauses, i, positive) ==
    Total([c \in 1..Len(clauses) |->
              Cardinality({l \in 1..Len(clauses[c]) :
                              /\ Abs(clauses[c][l]) - 1 = i
                              /\ (clauses[c][l] > 0) = positive})], 1)

\* a clause check that ignores the polarity of the literal
clauseNamesVariable(clause, assignment) ==
    \E l \in 1..Len(clause) :
        LET variable == Abs(clause[l]) - 1
        IN variable >= 0 /\ variable < Len(assignment)

\* clause.some(literal => assignment[variable] === isPositive)
clauseSatisfied(clause, assignment) ==
    \E l \in 1..Len(clause) :
        LET variable == Abs(clause[l]) - 1
        IN /\ variable >= 0
           /\ variable < Len(assignment)
           /\ assignment[variable + 1] = (clause[l] > 0)

solveSAT(projections, problem) ==
    LET clauses == problem.clauses
        assignment ==
            [v \in 1..problem.variables |->
                LET i == v - 1
                    trueLean ==
                        Total([p \in 1..Len(projections) |->
                                  Frac(MulInt(At(projections[p].coordinates, 0), i + 1))], 1)
                    falseLean ==
                        Total([p \in 1..Len(projections) |->
                                  Frac(MulInt(At(projections[p].coordinates, 1), i + 1))], 1)
                    trueValue == Sub(trueLean, occurrences(clauses, i, TRUE) * (SCALE \div 10))
                    falseValue == Sub(falseLean, occurrences(clauses, i, FALSE) * (SCALE \div 10))
                IN Lt(trueValue, falseValue)]
    IN [assignment |-> assignment,
        satisfied |-> \A c \in 1..Len(clauses) : clauseSatisfied(clauses[c], assignment)]

\* the sum of the numbers the membership list selects
RECURSIVE subsetSum(_, _, _)
subsetSum(numbers, subset, i) ==
    IF i > Len(numbers) THEN 0
    ELSE (IF subset[i] THEN numbers[i] ELSE 0) + subsetSum(numbers, subset, i + 1)

calculateSubsetSumDiff(numbers, target, subset) ==
    Abs(subsetSum(numbers, subset, 1) - target)

\* the 0-based indices the membership list selects, ascending
selectedIndices(subset) ==
    LET chosen == SelectSeq([i \in 1..Len(subset) |-> i], LAMBDA i : subset[i])
    IN [k \in 1..Len(chosen) |-> chosen[k] - 1]

subsetSolution(numbers, target, subset) ==
    LET sum == subsetSum(numbers, subset, 1)
    IN [subset |-> selectedIndices(subset),
        sum |-> sum,
        target |-> target,
        difference |-> Abs(sum - target)]

\* a flip kept when it moves the sum away from the target
flipWorsens(diff, bestDiff) == diff > bestDiff

\* whether the flip of index i is kept: diff < bestDiff
flipImproves(diff, bestDiff) == diff < bestDiff

\* the loop of _refineSubsetSum from index i (1-based) on
RECURSIVE refineFrom(_, _, _, _)
refineFrom(numbers, target, bestSubset, i) ==
    IF i > Len(numbers) THEN bestSubset
    ELSE LET testSubset == [bestSubset EXCEPT ![i] = ~bestSubset[i]]
             diff == calculateSubsetSumDiff(numbers, target, testSubset)
             bestDiff == calculateSubsetSumDiff(numbers, target, bestSubset)
         IN refineFrom(numbers, target,
                       IF flipImproves(diff, bestDiff) THEN testSubset ELSE bestSubset,
                       i + 1)

\* a refinement that tests every flip against the subset it was given
refineAgainstBaseline(numbers, target, initialSubset) ==
    LET bestDiff == calculateSubsetSumDiff(numbers, target, initialSubset)
        kept(i) == flipImproves(calculateSubsetSumDiff(numbers, target,
                                    [initialSubset EXCEPT ![i] = ~initialSubset[i]]),
                                bestDiff)
    IN subsetSolution(numbers, target,
                      [i \in 1..Len(numbers) |->
                          IF kept(i) THEN ~initialSubset[i] ELSE initialSubset[i]])

refineSubsetSum(numbers, target, initialSubset) ==
    subsetSolution(numbers, target, refineFrom(numbers, target, initialSubset, 1))

\* the membership list the projections select
projectedSubset(projections, problem) ==
    [i \in 1..Len(problem.numbers) |->
        LET includeValue ==
                Total([p \in 1..Len(projections) |->
                          Frac(MulInt(At(projections[p].coordinates, 0),
                                      problem.numbers[i]))], 1)
            excludeValue ==
                Total([p \in 1..Len(projections) |->
                          Frac(MulInt(At(projections[p].coordinates, 1),
                                      problem.numbers[i]))], 1)
        IN Lt(includeValue, excludeValue)]

\* Math.abs(sum - target) > 0.001 * target
needsRefinement(sum, target) == 1000 * Abs(sum - target) > target

\* _solveSubsetSum from the membership list the projection loop selected
solveSubsetSumFrom(subset, problem) ==
    LET sum == subsetSum(problem.numbers, subset, 1)
    IN IF needsRefinement(sum, problem.target)
       THEN refineSubsetSum(problem.numbers, problem.target, subset)
       ELSE subsetSolution(problem.numbers, problem.target, subset)

solveSubsetSum(projections, problem) ==
    solveSubsetSumFrom(projectedSubset(projections, problem), problem)

SupportedTypes == {"tsp", "graph-coloring", "sat", "subset-sum"}

\* the switch of _combineSolutionFromProjections; the default branch throws
combineSolutionFromProjections(projections, problem) ==
    CASE problem.type = "tsp" -> solveTSP(projections, problem)
      [] problem.type = "graph-coloring" -> solveGraphColoring(projections, problem)
      [] problem.type = "sat" -> solveSAT(projections, problem)
      [] problem.type = "subset-sum" -> solveSubsetSum(projections, problem)

(***************************************************************************)
(* Verifier                                                                *)
(***************************************************************************)
\* new Set(path).size === cities.length && path.length === cities.length
verifyTSP(path, n) == Cardinality(Range(path)) = n /\ Len(path) = n

verifyGraphColoring(coloring, graph, maxColors) ==
    /\ \A i \in 1..Len(graph) : \A j \in (i + 1)..Len(graph) :
          ~(graph[i][j] = 1 /\ coloring[i] = coloring[j])
    /\ \A i \in 1..Len(coloring) : coloring[i] < maxColors

verifySAT(solution) == solution.satisfied

\* a verifier that also accepts a difference of exactly 0.001 * target
verifyWithinOrAt(difference, target) == 1000 * difference <= target

\* difference < 0.001 * problem.target
verifySubsetSum(difference, target) == 1000 * difference < target

verifySolution(solution, problem) ==
    CASE problem.type = "tsp" -> verifyTSP(solution.path, Len(problem.cities))
      [] problem.type = "graph-coloring" ->
            verifyGraphColoring(solution.coloring, problem.graph, problem.maxColors)
      [] problem.type = "sat" -> verifySAT(solution)
      [] problem.type = "subset-sum" ->
            verifySubsetSum(solution.difference, problem.target)
      [] OTHER -> FALSE

(***************************************************************************)
(* solve                                                                   *)
(***************************************************************************)
\* a solve that answers an unknown kind with an empty, invalid solution
solveWithFallback(problem, stack, cache, cycle) ==
    LET space == initializeSolutionSpace(problem)
        drifted == applyQuantumDrift(space, problem, stack, cycle)
        extracted == extractPatterns(drifted.vectors, problem, cache, drifted.tickStack)
        projections == topProjections(extracted.patterns, problem)
        solution == IF problem.type \in SupportedTypes
                    THEN combineSolutionFromProjections(projections, problem)
                    ELSE [unsolved |-> TRUE]
    IN [sampled |-> TRUE,
        drifted |-> drifted,
        extracted |-> extracted,
        projections |-> projections,
        result |-> [status |-> "returned",
                    solution |-> solution,
                    isValid |-> verifySolution(solution, problem),
                    problemSize |-> problem.size,
                    driftState |-> drifted.driftState]]

\* a solve that rejects an unknown kind before any stage has run
solveCheckingKindFirst(problem, stack, cache, cycle) ==
    IF problem.type \notin SupportedTypes
    THEN [sampled |-> FALSE,
          drifted |-> [vectors |-> <<>>, tickStack |-> stack, cycleCount |-> cycle,
                       driftState |-> driftStateAt(cycle)],
          extracted |-> [cache |-> cache, analyzed |-> FALSE],
          projections |-> <<>>,
          result |-> [status |-> "thrown", error |-> "Unsupported problem type"]]
    ELSE solveWithFallback(problem, stack, cache, cycle)

\* everything one solve call computes from the instance and the engine state
solve(problem, stack, cache, cycle) ==
    IF samplingThrows(problem)
    THEN [sampled |-> FALSE,
          drifted |-> [vectors |-> <<>>, tickStack |-> stack, cycleCount |-> cycle,
                       driftState |-> driftStateAt(cycle)],
          extracted |-> [cache |-> cache, analyzed |-> FALSE],
          projections |-> <<>>,
          result |-> [status |-> "thrown", error |-> "Invalid typed array length"]]
    ELSE
    LET space == initializeSolutionSpace(problem)
        drifted == applyQuantumDrift(space, problem, stack, cycle)
        extracted == extractPatterns(drifted.vectors, problem, cache, drifted.tickStack)
        projections == topProjections(extracted.patterns, problem)
    IN [sampled |-> TRUE,
        drifted |-> drifted,
        extracted |-> extracted,
        projections |-> projections,
        result |->
            IF problem.type \in SupportedTypes
            THEN LET solution == combineSolutionFromProjections(projections, problem)
                 IN [status |-> "returned",
                     solution |-> solution,
                     isValid |-> verifySolution(solution, problem),
                     problemSize |-> problem.size,
                     driftState |-> drifted.driftState]
            ELSE [status |-> "thrown", error |-> "Unsupported problem type"]]

(***************************************************************************)
(* MetricsEstimator: _calculateComplexityMetrics.  A time is a number of     *)
(* milliseconds, a multiple of 10 not below 10.                              *)
(***************************************************************************)
getTheoreticalComplexity(problemType) ==
    CASE problemType = "tsp" -> "O(n!)"
      [] problemType = "graph-coloring" -> "O(k^n)"
      [] problemType = "sat" -> "O(2^n)"
      [] problemType = "subset-sum" -> "O(2^n)"
      [] OTHER -> "Unknown"

\* normalizedTime / (size * Math.log(size)); not finite for size 1
getMeasuredComplexity(size, time) ==
    LET normalizedTime == time \div 10
        logSize == (Log2(size) * 693) \div SCALE
    IN IF size * logSize = 0 THEN NaN
       ELSE Quotient(normalizedTime * SCALE, size * logSize)

\* Math.round(Math.log(normalizedTime) / Math.log(size) * 100) / 100; not finite
\* for size 1
getPolynomialDegree(size, time) ==
    LET logTime == Log2(time \div 10)
        logSize == Log2(size)
    IN IF logSize = 0 THEN NaN
       ELSE ((Quotient(logTime, logSize) + 5) \div 10) * 10

calculateComplexityMetrics(problem, timeElapsed) ==
    [theoreticalComplexity |-> getTheoreticalComplexity(problem.type),
     measuredComplexity |-> getMeasuredComplexity(problem.size, timeElapsed),
     timeComplexity |-> getPolynomialDegree(problem.size, timeElapsed)]

\* a result that reports no validity once the call took longer than 50 ms
resultWithDeadline(returned, problem, timeElapsed) ==
    IF returned.status # "returned" THEN returned
    ELSE [status |-> "returned",
          solution |-> returned.solution,
          isValid |-> returned.isValid /\ timeElapsed <= 50,
          timeElapsed |-> timeElapsed,
          problemSize |-> returned.problemSize,
          complexityMetrics |-> calculateComplexityMetrics(problem, timeElapsed),
          driftState |-> returned.driftState]

\* the record solve returns when performance.now() advanced by timeElapsed
\* between its two readings
timedResult(returned, problem, timeElapsed) ==
    IF returned.status # "returned" THEN returned
    ELSE [status |-> "returned",
          solution |-> returned.solution,
          isValid |-> returned.isValid,
          timeElapsed |-> timeElapsed,
          problemSize |-> returned.problemSize,
          complexityMetrics |-> calculateComplexityMetrics(problem, timeElapsed),
          driftState |-> returned.driftState]

(***************************************************************************)
(* The NPSolver class of the demonstration page (src/unnamed/part_000).    *)
(* It has the same fields as the engine; its solve goes straight to a      *)
(* per-kind heuristic and writes no field but cycleCount.                  *)
(***************************************************************************)
\* 1 + Math.sin(this.cycleCount * this.PHI + j) * 0.1
page_driftFactor(cycle, j) == SCALE + (Sin(cycle * PHI + j * SCALE) * 100) \div SCALE

\* the city nearest to lastCity among all others, visited or not
page_nearestOfAll(cities, path, cycle) ==
    LET lastCity == path[Len(path)]
        keys == [c \in 1..Len(cities) |->
                    (calculateDistance(cities[lastCity + 1], cities[c])
                        * page_driftFactor(cycle, c - 1)) \div SCALE]
    IN firstLeast(keys, {lastCity + 1}, 1, 0) - 1

\* the unvisited city the inner loop of _solveTSP keeps: the first one whose
\* drifted distance from lastCity no other undercuts; -1 if there is none
page_bestCity(cities, path, cycle) ==
    LET lastCity == path[Len(path)]
        keys == [c \in 1..Len(cities) |->
                    IF (c - 1) \in Range(path) THEN NaN
                    ELSE (calculateDistance(cities[lastCity + 1], cities[c])
                            * page_driftFactor(cycle, c - 1)) \div SCALE]
    IN firstLeast(keys, {c \in 1..Len(cities) : (c - 1) \in Range(path)}, 1, 0) - 1

\* the outer loop of _solveTSP for i = Len(path) .. n - 1
RECURSIVE page_extendPath(_, _, _)
page_extendPath(cities, path, cycle) ==
    IF Len(path) >= Len(cities) THEN [path |-> path, cycleCount |-> cycle]
    ELSE page_extendPath(cities, Append(path, page_bestCity(cities, path, cycle)),
                         cycle + 1)

page_solveTSP(problem, cycle) ==
    LET cities == problem.cities
        n == Len(cities)
        walked == page_extendPath(cities, <<0>>, cycle)
        path == walked.path
    IN [solution |->
            [path |-> path,
             distance |->
                Total([i \in 1..n |->
                          calculateDistance(cities[path[i] + 1],
                                            cities[path[(i % n) + 1] + 1])], 1)],
        cycleCount |-> walked.cycleCount]

\* the first color no neighbor of node i holds; a neighbor not yet visited holds
\* the 0 the list was filled with
page_firstAvailableColor(graph, coloring, i) ==
    LET usedColors == {coloring[j] : j \in {k \in 1..Len(graph) : graph[i + 1][k] = 1}}
    IN CHOOSE color \in 0..Len(graph) :
          /\ color \notin usedColors
          /\ \A lower \in 0..(color - 1) : lower \in usedColors

\* the iterations lo .. hi - 1 of the loop over i, in two halves so that graphs
\* of 100 nodes stay within the evaluator's stack; the first half's coloring is
\* computed (its length read) before the second half starts from it
RECURSIVE page_colorBetween(_, _, _, _)
page_colorBetween(graph, coloring, lo, hi) ==
    IF lo >= hi THEN coloring
    ELSE IF hi = lo + 1
    THEN [coloring EXCEPT ![lo + 1] = page_firstAvailableColor(graph, coloring, lo)]
    ELSE LET mid == (lo + hi) \div 2
             firstHalf == page_colorBetween(graph, coloring, lo, mid)
         IN IF Len(firstHalf) = Len(coloring)
            THEN page_colorBetween(graph, firstHalf, mid, hi)
            ELSE firstHalf

\* the loop over i from node i on
page_colorFrom(graph, coloring, i) == page_colorBetween(graph, coloring, i, Len(graph))

\* Math.max(...coloring) of a list of colors
page_maxColor(coloring) ==
    CHOOSE color \in Range(coloring) : \A other \in Range(coloring) : other <= color

page_solveGraphColoring(problem) ==
    LET coloring == page_colorFrom(problem.graph, [k \in 1..Len(problem.graph) |-> 0], 0)
    IN [coloring |-> coloring, colorCount |-> page_maxColor(coloring) + 1]

\* _evaluateSATScore: the number of clauses with a literal whose variable is
\* below assignment.length and holds the literal's polarity
page_evaluateSATScore(clauses, assignment) ==
    Cardinality({c \in 1..Len(clauses) :
        \E l \in 1..Len(clauses[c]) :
            LET variable == Abs(clauses[c][l]) - 1
            IN /\ variable < Len(assignment)
               /\ variable >= 0
               /\ assignment[variable + 1] = (clauses[c][l] > 0)})

RECURSIVE page_assignFrom(_, _, _)
page_assignFrom(clauses, assignment, i) ==
    IF i > Len(assignment) THEN assignment
    ELSE LET trueScore ==
                 page_evaluateSATScore(clauses, [assignment EXCEPT ![i] = TRUE])
             falseScore ==
                 page_evaluateSATScore(clauses, [assignment EXCEPT ![i] = FALSE])
         IN page_assignFrom(clauses,
                            [assignment EXCEPT ![i] = (trueScore >= falseScore)],
                            i + 1)

page_solveSAT(problem) ==
    LET assignment ==
            page_assignFrom(problem.clauses, [v \in 1..problem.variables |-> FALSE], 1)
    IN [assignment |-> assignment,
        satisfied |->
            page_evaluateSATScore(problem.clauses, assignment) = Len(problem.clauses)]

\* Math.abs(currentSum - target) < 0.001 * target
page_closeEnough(currentSum, target) == 1000 * Abs(currentSum - target) < target

\* the loop of _solveSubsetSum over sortedIndices from position k on
RECURSIVE page_takeFrom(_, _, _, _, _, _)
page_takeFrom(numbers, target, sortedIndices, k, taken, cycle) ==
    IF k > Len(sortedIndices) THEN [subset |-> taken.subset, sum |-> taken.sum,
                                    cycleCount |-> cycle]
    ELSE LET i == sortedIndices[k]
             driftFactor == (Sin(cycle * PHI + (i - 1) * SCALE) * 100) \div SCALE
             driftedTarget == target * (SCALE + driftFactor)
             fits == (taken.sum + numbers[i]) * SCALE <= driftedTarget
             next == IF fits
                     THEN [subset |-> [taken.subset EXCEPT ![i] = TRUE],
                           sum |-> taken.sum + numbers[i]]
                     ELSE taken
         IN IF page_closeEnough(next.sum, target)
            THEN [subset |-> next.subset, sum |-> next.sum, cycleCount |-> cycle + 1]
            ELSE page_takeFrom(numbers, target, sortedIndices, k + 1, next, cycle + 1)

page_solveSubsetSum(problem, cycle) ==
    LET numbers == problem.numbers
        target == problem.target
        n == Len(numbers)
        \* |numbers[a] - target / 2|, doubled
        sortedIndices == sortOrder([i \in 1..n |-> Abs(2 * numbers[i] - target)])
        taken == page_takeFrom(numbers, target, sortedIndices, 1,
                               [subset |-> [i \in 1..n |-> FALSE], sum |-> 0], cycle)
    IN [solution |->
            [subset |-> selectedIndices(taken.subset),
             sum |-> taken.sum,
             target |-> target,
             difference |-> Abs(taken.sum - target)],
        cycleCount |-> taken.cycleCount]

page_verifyGraphColoring(coloring, graph) ==
    \A i \in 1..Len(graph) : \A j \in (i + 1)..Len(graph) :
        ~(graph[i][j] = 1 /\ coloring[i] = coloring[j])

page_verifySolution(solution, problem) ==
    CASE problem.type = "tsp" -> Len(solution.path) = Len(problem.cities)
      [] problem.type = "graph-coloring" ->
            page_verifyGraphColoring(solution.coloring, problem.graph)
      [] problem.type = "sat" -> solution.satisfied
      [] problem.type = "subset-sum" -> page_closeEnough(solution.sum, problem.target)
      [] OTHER -> FALSE

\* what solve returns (or throws) and the cycle count it leaves
page_solve(problem, cycle, drift) ==
    IF problem.type \notin SupportedTypes
    THEN [result |-> [status |-> "thrown", error |-> "Unsupported problem type"],
          cycleCount |-> cycle]
    ELSE LET solved ==
                 CASE problem.type = "tsp" -> page_solveTSP(problem, cycle)
                   [] problem.type = "graph-coloring" ->
                         [solution |-> page_solveGraphColoring(problem),
                          cycleCount |-> cycle]
                   [] problem.type = "sat" ->
                         [solution |-> page_solveSAT(problem), cycleCount |-> cycle]
                   [] problem.type = "subset-sum" -> page_solveSubsetSum(problem, cycle)
         IN [result |-> [status |-> "returned",
                         solution |-> solved.solution,
                         isValid |-> page_verifySolution(solved.solution, problem),
                         problemSize |-> problem.size,
                         driftState |-> drift],
             cycleCount |-> solved.cycleCount]

(***************************************************************************)
(* Instances                                                               *)
(***************************************************************************)
NoCities == <<>>

NoGraph == <<>>

NoClauses == <<>>

NoNumbers == <<>>

Instance(type, size, cities, graph, maxColors, clauses, variables, numbers, target) ==
    [type |-> type, size |-> size, dimensions |-> DIMENSIONS,
     cities |-> cities, graph |-> graph, maxColors |-> maxColors,
     clauses |-> clauses, variables |-> variables,
     numbers |-> numbers, target |-> target]

Tour(size, cities) ==
    Instance("tsp", size, cities, NoGraph, 0, NoClauses, 0, NoNumbers, 0)

Coloring(size, graph, maxColors) ==
    Instance("graph-coloring", size, NoCities, graph, maxColors, NoClauses, 0, NoNumbers, 0)

Satisfaction(size, variables, clauses) ==
    Instance("sat", size, NoCities, NoGraph, 0, clauses, variables, NoNumbers, 0)

SubsetSelection(size, numbers, target) ==
    Instance("subset-sum", size, NoCities, NoGraph, 0, NoClauses, 0, numbers, target)

Pt(x, y) == [x |-> x, y |-> y]

\* an instance that names its own dimension count (problem.dimensions)
WithDimensions(problem, dimensions) == [problem EXCEPT !.dimensions = dimensions]

\* the 4-city square of the spec's scenario
Square == <<Pt(0, 0), Pt(10, 0), Pt(10, 10), Pt(0, 10)>>

Line3 == <<Pt(0, 0), Pt(7, 0), Pt(3, 0)>>

Triangle == <<<<0, 1, 1>>, <<1, 0, 1>>, <<1, 1, 0>>>>

\* an adjacency matrix with the single entry graph[1][0] = 1
OneWay == <<<<0, 0>>, <<1, 0>>>>

\* 10 nodes, the first 7 pairwise adjacent
Clique7In10 ==
    [i \in 1..10 |-> [j \in 1..10 |-> IF i # j /\ i <= 7 /\ j <= 7 THEN 1 ELSE 0]]

\* the most solve calls in one behaviour
MaxCalls == 3

\* the instance sizes of the mixed-kind specification: 5 and 6 are within 20% of
\* each other (|5 - 6| / 6 < 0.2), 6 and 16 are not
CacheSizes == {5, 6, 16}

CacheInstances ==
    {Tour(s, Square) : s \in CacheSizes}
    \cup {Coloring(s, Triangle, 3) : s \in CacheSizes}
    \cup {Satisfaction(5, 2, <<<<1, 2>>, <<-1>>>>), SubsetSelection(6, <<3, 5, 2>>, 7)}

\* Math.ceil(Math.log2(size) * PHI) vectors per call: none for size 1, 2 for
\* size 2, 7 for size 16 and 13 for size 200, so that a fresh engine has no
\* projection (size 1), projections without coordinates (sizes 2 and 16), or
\* projections on 3 dimension pairs (size 200); an instance of 2 dimensions and
\* size 200 fills two windows only, which gives a single dimension pair
TourInstances ==
    {Tour(2, NoCities), Tour(1, <<Pt(3, 4)>>), Tour(2, Line3), Tour(16, Square),
     Tour(200, Square), WithDimensions(Tour(200, Line3), 2)}

ColoringInstances ==
    {Coloring(2, Triangle, 3), Coloring(200, Triangle, 3), Coloring(16, Triangle, 2),
     Coloring(2, OneWay, 2), Coloring(10, Clique7In10, 6),
     WithDimensions(Coloring(200, Triangle, 3), 2)}

\* the instance of 1 variable and the unit clause [1]
Unit(size) == Satisfaction(size, 1, <<<<1>>>>)

UnitInstances ==
    {Unit(1), Unit(2), Unit(16), Unit(200), WithDimensions(Unit(200), 2)}

SatInstances ==
    {Satisfaction(2, 2, <<<<1, 2, 2>>, <<-1, -1, 2>>>>),
     Satisfaction(16, 1, <<<<1, 1, 1>>, <<-1, -1, -1>>>>),
     Satisfaction(2, 2, <<<<1, 2>>, <<-1>>>>),
     Satisfaction(200, 2, <<<<1, -2>>, <<2, 1>>>>),
     Satisfaction(200, 2, <<<<1>>, <<>>>>),
     Satisfaction(16, 2, <<<<3>>, <<1, 2>>>>),
     Satisfaction(1, 3, <<<<-3, 0>>, <<1>>, <<-4, 2>>>>)}

SubsetInstances ==
    {SubsetSelection(2, <<3, 5, 2>>, 7), SubsetSelection(200, <<3, 5, 2>>, 7),
     SubsetSelection(200, <<999>>, 1000), SubsetSelection(2, <<1, 2>>, 0),
     SubsetSelection(16, <<1000>>, 1001), SubsetSelection(2, <<1000, 1, 1>>, 1002),
     SubsetSelection(1, <<4, 4>>, 8)}

(***************************************************************************)
(* The instances the page builds: its handlers accept sizes 10..1000 and    *)
(* pass the solver what ProblemGenerator returns.  The payload shapes are   *)
(* kept; the payload counts are scaled down (1 or more in place of 10).     *)
(***************************************************************************)
\* Math.min(size, Math.ceil(size * density * 2)) with density 0.3
generatedMaxColors(n) == Min2(n, (6 * n + 9) \div 10)

\* target is the sum of the numbers at some set of positions
isSubsetSum(numbers, target) ==
    \E chosen \in SUBSET (1..Len(numbers)) :
        subsetSum(numbers, [i \in 1..Len(numbers) |-> i \in chosen], 1) = target

generated(problem) ==
    CASE problem.type = "tsp" -> Len(problem.cities) >= 1
      [] problem.type = "graph-coloring" ->
            /\ Len(problem.graph) >= 1
            /\ \A i \in 1..Len(problem.graph) : \A j \in 1..Len(problem.graph) :
                  /\ problem.graph[i][j] = problem.graph[j][i]
                  /\ i = j => problem.graph[i][j] = 0
            /\ problem.maxColors = generatedMaxColors(Len(problem.graph))
      [] problem.type = "sat" ->
            /\ problem.variables >= 1
            /\ \A c \in 1..Len(problem.clauses) :
                  /\ Len(problem.clauses[c]) = 3
                  /\ \A l \in 1..3 : Abs(problem.clauses[c][l]) \in 1..problem.variables
      [] problem.type = "subset-sum" ->
            /\ Len(problem.numbers) >= 1
            /\ \A i \in 1..Len(problem.numbers) : problem.numbers[i] \in 1..1000
            /\ isSubsetSum(problem.numbers, problem.target)
      [] OTHER -> FALSE

(***************************************************************************)
(* The state machine                                                       *)
(***************************************************************************)
NoTrace == [called |-> FALSE]

NoProbe == [op |-> "none"]

\* the fields both constructors set, and the observers before any call
Constructed ==
    /\ tickStack = [d \in 1..DIMENSIONS |-> <<>>]
    /\ patternCache = <<>>
    /\ cycleCount = 0
    /\ driftState = 0
    /\ result = [status |-> "none"]
    /\ lastTrace = NoTrace
    /\ prevTrace = NoTrace
    /\ appended = [d \in 1..DIMENSIONS |-> <<>>]
    /\ computedFor = <<>>
    /\ asked = [type |-> "none"]

\* new NPSolver() of src/src/solver.js
Init ==
    /\ Constructed
    /\ implementation = "solver.js"
    /\ probe = NoProbe

\* new NPSolver() of either file
InitEither ==
    /\ Constructed
    /\ implementation \in {"solver.js", "index.html"}
    /\ probe = NoProbe

\* one call of solve(problem) on the engine, while fewer than `limit` calls were made
SolveWithin(problem, limit) ==
    /\ implementation = "solver.js"
    /\ cycleCount < limit
    /\ \E call \in {solve(problem, tickStack, patternCache, cycleCount)} :
       \E problemKey \in {generateProblemKey(problem)} :
       \E here \in {[type |-> problem.type, size |-> problem.size]} :
       /\ tickStack' = call.drifted.tickStack
       /\ cycleCount' = call.drifted.cycleCount
       /\ driftState' = call.drifted.driftState
       /\ patternCache' = call.extracted.cache
       /\ result' = call.result
       /\ appended' =
            [d \in 1..DIMENSIONS |->
                IF d <= dimensionsOf(problem)
                THEN appended[d] \o [v \in 1..Len(call.drifted.vectors) |->
                                        call.drifted.vectors[v][d]]
                ELSE appended[d]]
       /\ computedFor' =
            IF call.extracted.analyzed
            THEN [k \in DOMAIN computedFor \cup {problemKey} |->
                     IF k = problemKey THEN here ELSE computedFor[k]]
            ELSE computedFor
       /\ lastTrace' =
            IF call.sampled
            THEN [called |-> TRUE,
                  problem |-> problem,
                  analyzed |-> call.extracted.analyzed,
                  patterns |-> call.extracted.patterns,
                  projections |-> call.projections,
                  origin |-> IF call.extracted.analyzed THEN here
                             ELSE computedFor[problemKey]]
            ELSE NoTrace
       /\ prevTrace' = lastTrace
       /\ asked' = problem
       /\ UNCHANGED <<implementation, probe>>

\* one click on the page: solver.solve(problem) for an instance the page can
\* build, while the solver's cycle count is below `limit`
PageSolveWithin(problem, limit) ==
    /\ implementation = "index.html"
    /\ generated(problem)
    /\ cycleCount < limit
    /\ \E call \in {page_solve(problem, cycleCount, driftState)} :
       /\ cycleCount' = call.cycleCount
       /\ result' = call.result
    /\ asked' = problem
    /\ UNCHANGED <<tickStack, patternCache, driftState, lastTrace, prevTrace,
                   appended, computedFor, implementation, probe>>

Solve(problem) == SolveWithin(problem, MaxCalls)

Next == \E problem \in CacheInstances : Solve(problem)

Spec == Init /\ [][Next]_vars

(***************************************************************************)
(* A long run of large instances, to fill the windows past their capacity  *)
(***************************************************************************)
\* the most solve calls in one behaviour of SpecHistory
MaxHistoryCalls == 8

\* Math.ceil(Math.log2(size) * PHI) is 15 for size 500 and 17 for size 1000
HistoryInstances == {Tour(500, Square), Tour(1000, Square)}

NextHistory == \E problem \in HistoryInstances : SolveWithin(problem, MaxHistoryCalls)

SpecHistory == Init /\ [][NextHistory]_vars

(***************************************************************************)
(* One kind of instance, on the solver of either file                      *)
(***************************************************************************)
\* the page's cycle count up to which its solver is called
MaxPageCycle == 6

PageSolve(problem) == PageSolveWithin(problem, MaxPageCycle)

NextTour == \E problem \in TourInstances : Solve(problem) \/ PageSolve(problem)

SpecTour == InitEither /\ [][NextTour]_vars

NextColoring == \E problem \in ColoringInstances : Solve(problem) \/ PageSolve(problem)

SpecColoring == InitEither /\ [][NextColoring]_vars

NextSat == \E problem \in SatInstances : Solve(problem) \/ PageSolve(problem)

SpecSat == InitEither /\ [][NextSat]_vars

\* the unit clause [1] is no instance the page builds (its clauses have 3 literals)
NextUnit == \E problem \in UnitInstances : Solve(problem)

SpecUnit == Init /\ [][NextUnit]_vars

NextSubset == \E problem \in SubsetInstances : Solve(problem) \/ PageSolve(problem)

SpecSubset == InitEither /\ [][NextSubset]_vars

(***************************************************************************)
(* The scenario of numbers [1,2,3,4,5] and target 0                        *)
(***************************************************************************)
Zero(size) == SubsetSelection(size, <<1, 2, 3, 4, 5>>, 0)

ZeroInstances == {Zero(1), Zero(2), Zero(16), Zero(200), WithDimensions(Zero(200), 2)}

NextZero == \E problem \in ZeroInstances : Solve(problem) \/ PageSolve(problem)

SpecZero == InitEither /\ [][NextZero]_vars

(***************************************************************************)
(* Instances of a kind no strategy handles, on the engine                  *)
(***************************************************************************)
Unsupported(type, size) ==
    Instance(type, size, NoCities, NoGraph, 0, NoClauses, 0, <<3, 5>>, 7)

UnsupportedInstances ==
    {Unsupported("knapsack", 2), Unsupported("knapsack", 200), Unsupported("TSP", 16),
     Unsupported("", 1), Tour(16, Square)}

NextUnsupported == \E problem \in UnsupportedInstances : Solve(problem)

SpecUnsupported == Init /\ [][NextUnsupported]_vars

(***************************************************************************)
(* Instances that name a dimension count of 0 or below, on the engine      *)
(***************************************************************************)
DimensionInstances ==
    {WithDimensions(Tour(16, Square), 0), WithDimensions(Tour(16, Square), 0 - 1),
     WithDimensions(Tour(1, Square), 0 - 1), WithDimensions(Tour(200, Line3), 0 - 3),
     WithDimensions(Tour(16, Square), 2), Tour(2, Line3)}

NextDimension == \E problem \in DimensionInstances : Solve(problem)

SpecDimension == Init /\ [][NextDimension]_vars

\* well-formed instances of the four kinds, among them instances no solution of
\* the engine can make valid: a triangle with 2 colours, the clauses (x) and
\* (not x), the number 999 for the target 1000
WellFormedInstances ==
    {Tour(1, Square), Tour(200, Square), Coloring(16, Triangle, 2),
     Satisfaction(2, 1, <<<<1>>, <<-1>>>>), SubsetSelection(200, <<999>>, 1000),
     SubsetSelection(2, <<3, 5, 2>>, 7), WithDimensions(Coloring(200, Triangle, 3), 2)}

NextWellFormed == \E problem \in WellFormedInstances : Solve(problem)

SpecWellFormed == Init /\ [][NextWellFormed]_vars

\* calls enough for a history to pass its capacity (17 vectors per call of size
\* 1000), with an instance of 2 dimensions and an instance the sampler fails on
MaxDriftCalls == 6

DriftInstances ==
    {Tour(1000, Square), WithDimensions(Tour(1000, Line3), 2),
     WithDimensions(Tour(16, Square), 0 - 1)}

NextDrift == \E problem \in DriftInstances : SolveWithin(problem, MaxDriftCalls)

SpecDrift == Init /\ [][NextDrift]_vars

\* sizes 64 and 8 sample 10 and 5 vectors, so that a history holds exactly 10
\* values after one call or two; instances of 2 and 3 dimensions fill 2 and 3
\* histories only
WindowInstances ==
    {Tour(64, Square), WithDimensions(Tour(64, Line3), 2), Tour(8, Line3),
     WithDimensions(Tour(8, Square), 3), Unit(2)}

NextWindow == \E problem \in WindowInstances : Solve(problem)

SpecWindow == Init /\ [][NextWindow]_vars

\* the values performance.now() may have advanced by during one call
ElapsedTimes == {20, 80}

TwinInstances ==
    {Tour(16, Square), Coloring(16, Triangle, 3), Satisfaction(2, 2, <<<<1, 2>>, <<-1>>>>),
     SubsetSelection(200, <<3, 5, 2>>, 7), Unsupported("knapsack", 2)}

\* two engines constructed alike; the second one is held in `probe`
InitTwin ==
    /\ Constructed
    /\ implementation = "solver.js"
    /\ probe = [op |-> "twin", tickStack |-> [d \in 1..DIMENSIONS |-> <<>>],
                patternCache |-> <<>>, cycleCount |-> 0, driftState |-> 0,
                result |-> [status |-> "none"]]

\* solve(problem) on both engines, the clock advancing by `elapsed` during the
\* call on the first engine and by `twinElapsed` during the call on the second
TwinSolve(problem) ==
    /\ probe.op = "twin"
    /\ cycleCount < MaxCalls
    /\ \E calls \in {[engine \in {"first", "second"} |->
                        solve(problem,
                              IF engine = "first" THEN tickStack ELSE probe.tickStack,
                              IF engine = "first" THEN patternCache ELSE probe.patternCache,
                              IF engine = "first" THEN cycleCount ELSE probe.cycleCount)]} :
       \E call \in {calls["first"]} : \E twin \in {calls["second"]} :
       \E elapsed \in ElapsedTimes : \E twinElapsed \in ElapsedTimes :
       /\ tickStack' = call.drifted.tickStack
       /\ cycleCount' = call.drifted.cycleCount
       /\ driftState' = call.drifted.driftState
       /\ patternCache' = call.extracted.cache
       /\ result' = timedResult(call.result, problem, elapsed)
       /\ probe' = [op |-> "twin",
                    tickStack |-> twin.drifted.tickStack,
                    patternCache |-> twin.extracted.cache,
                    cycleCount |-> twin.drifted.cycleCount,
                    driftState |-> twin.drifted.driftState,
                    result |-> timedResult(twin.result, problem, twinElapsed)]
    /\ asked' = problem
    /\ UNCHANGED <<lastTrace, prevTrace, appended, computedFor, implementation>>

NextTwin == \E problem \in TwinInstances : TwinSolve(problem)

SpecTwin == InitTwin /\ [][NextTwin]_vars

\* instances of 11 dimensions or more, of sizes that leave exactly 10 values
\* (size 64, or size 8 twice) or more in a history
WideInstances ==
    {Tour(64, Square), WithDimensions(Tour(64, Square), 12), Tour(8, Line3),
     WithDimensions(Coloring(200, Triangle, 3), 15), Unit(2)}

NextWide == \E problem \in WideInstances : Solve(problem)

SpecWide == Init /\ [][NextWide]_vars

\* two tsp instances of one key and different cities, a tsp instance of another
\* key, a sat instance and a graph-coloring instance
LedgerInstances ==
    {Tour(16, Square), Tour(16, Line3), Tour(200, Square),
     Satisfaction(16, 2, <<<<1, -2>>, <<2, 1>>>>), Coloring(16, Triangle, 3)}

\* an engine whose client notes, in `probe`, the first call made for each key
InitLedger ==
    /\ Constructed
    /\ implementation = "solver.js"
    /\ probe = [op |-> "ledger", created |-> <<>>]

\* solve(problem); the client notes the instance, the pattern and the solution
\* if this is the first call for the key
SolveAndNote(problem) ==
    /\ probe.op = "ledger"
    /\ cycleCount < MaxCalls
    /\ \E call \in {solve(problem, tickStack, patternCache, cycleCount)} :
       \E problemKey \in {generateProblemKey(problem)} :
       \E here \in {[type |-> problem.type, size |-> problem.size]} :
       /\ tickStack' = call.drifted.tickStack
       /\ cycleCount' = call.drifted.cycleCount
       /\ driftState' = call.drifted.driftState
       /\ patternCache' = call.extracted.cache
       /\ result' = call.result
       /\ appended' =
            [d \in 1..DIMENSIONS |->
                IF d <= dimensionsOf(problem)
                THEN appended[d] \o [v \in 1..Len(call.drifted.vectors) |->
                                        call.drifted.vectors[v][d]]
                ELSE appended[d]]
       /\ computedFor' =
            IF call.extracted.analyzed
            THEN [k \in DOMAIN computedFor \cup {problemKey} |->
                     IF k = problemKey THEN here ELSE computedFor[k]]
            ELSE computedFor
       /\ lastTrace' =
            IF call.sampled
            THEN [called |-> TRUE,
                  problem |-> problem,
                  analyzed |-> call.extracted.analyzed,
                  patterns |-> call.extracted.patterns,
                  projections |-> call.projections,
                  origin |-> IF call.extracted.analyzed THEN here
                             ELSE computedFor[problemKey]]
            ELSE NoTrace
       /\ probe' =
            IF problemKey \in DOMAIN probe.created \/ call.result.status # "returned"
            THEN probe
            ELSE [probe EXCEPT !.created =
                    [k \in DOMAIN probe.created \cup {problemKey} |->
                        IF k = problemKey
                        THEN [problem |-> problem,
                              patterns |-> call.extracted.patterns,
                              solution |-> call.result.solution]
                        ELSE probe.created[k]]]
    /\ prevTrace' = lastTrace
    /\ asked' = problem
    /\ UNCHANGED implementation

NextLedger == \E problem \in LedgerInstances : SolveAndNote(problem)

SpecLedger == InitLedger /\ [][NextLedger]_vars

\* instances whose target is 0 or negative; the numbers -3 and 1 have a subset of
\* sum -3 and none of sum -5
NonPositiveInstances ==
    {Zero(16), Zero(200), SubsetSelection(2, <<0 - 3, 1>>, 0 - 3),
     SubsetSelection(200, <<0 - 3, 1>>, 0 - 5), SubsetSelection(16, <<2, 0 - 2>>, 0)}

NextNonPositive == \E problem \in NonPositiveInstances : Solve(problem) \/ PageSolve(problem)

SpecNonPositive == InitEither /\ [][NextNonPositive]_vars

(***************************************************************************)
(* PageDriver: the script of src/unnamed/part_000 around its solver, that  *)
(* is the shared benchmarkResults record and the click handlers of the     *)
(* Solve and Benchmark buttons.  The Benchmark handler is an async         *)
(* function: it runs to its first await within the click, and each later   *)
(* stretch between two awaits runs when the timer of setTimeout(resolve,   *)
(* 0) fires.  Clicks and timers are tasks of one event loop, so a stretch  *)
(* is one step; which of several pending timers fires first is the         *)
(* browser's choice (timers nested more than 5 deep are delayed to 4 ms,   *)
(* those of a fresh click are not).                                        *)
(*                                                                         *)
(* The driver's state is held in probe: benchmarkResults, resultsDiv (what *)
(* the page shows), runs (per Benchmark click, the 1-based position in     *)
(* sizes its next stretch starts at) and, as an observer, producers (the   *)
(* run whose push made each entry of benchmarkResults).                    *)
(***************************************************************************)
\* const sizes = [10, 20, 30, 50, 75, 100]
benchmarkSizes == <<10, 20, 30, 50, 75, 100>>

\* the most clicks of the Benchmark button in one behaviour
MaxBenchmarkClicks == 2

\* what performance.now() advanced by during a solve of the page, in ms, and
\* what Math.random() returned to _calculateComplexityMetrics, at resolution SCALE
PageElapsedTimes == {20}

RandomDraws == {500}

\* the values of the size field the Solve button is clicked with
PageSizes == {5, 10}

\* n nodes on a cycle: a graph generateGraphColoring(n) can draw
Ring(n) ==
    [i \in 1..n |-> [j \in 1..n |->
        IF (i - j) % n = 1 \/ (j - i) % n = 1 THEN 1 ELSE 0]]

\* size cities on a circle of radius 100: generateTSP(size) with every random
\* addend 0, at whole coordinates in units of 10
circleCities(size) ==
    [i \in 1..size |->
        LET angle == ((i - 1) * 2 * PI) \div size
        IN Pt((10 * Sin(angle + PI \div 2)) \div SCALE, (10 * Sin(angle)) \div SCALE)]

\* the instance the generator hands out for the selected kind and a size
generateProblem(problemType, size) ==
    CASE problemType = "tsp" -> Tour(size, circleCities(size))
      [] problemType = "graph-coloring" ->
            Coloring(size, Ring(size), generatedMaxColors(size))

\* Number.prototype.toFixed(2), as a fixed-point number
toFixed2(x) == ((x + 5) \div 10) * 10

\* _calculateComplexityMetrics of the page: timeComplexity is the text
\* `O(n^${degree.toFixed(2)})`, held as its prefix and the number it prints
page_calculateComplexityMetrics(problem, timeElapsed, random) ==
    LET degree == SCALE + random \div 2
        logSize == (Log2(problem.size) * 693) \div SCALE
    IN [theoreticalComplexity |-> getTheoreticalComplexity(problem.type),
        measuredComplexity |->
            IF problem.size * logSize = 0 THEN NaN
            ELSE Quotient(timeElapsed * SCALE, problem.size * logSize),
        timeComplexity |-> [text |-> "O(n^", printed |-> toFixed2(degree)]]

\* the record solve of the page returns when the clock advanced by timeElapsed and
\* Math.random() returned random
page_timedResult(returned, problem, timeElapsed, random) ==
    [status |-> "returned",
     solution |-> returned.solution,
     isValid |-> returned.isValid,
     timeElapsed |-> timeElapsed,
     problemSize |-> returned.problemSize,
     complexityMetrics |-> page_calculateComplexityMetrics(problem, timeElapsed, random),
     driftState |-> returned.driftState]

\* timeComplexity.match(/O\(n\^([0-9.]+)\)/), then parseFloat of the group, or 1.0
matchedDegree(timeComplexity) ==
    IF timeComplexity.text = "O(n^" THEN timeComplexity.printed ELSE SCALE

NoBenchmarkResults == [sizes |-> <<>>, times |-> <<>>, polynomialDegrees |-> <<>>]

\* the three pushes of one iteration of the Benchmark handler
pushBenchmark(benchmarkResults, size, returned) ==
    [sizes |-> Append(benchmarkResults.sizes, size),
     times |-> Append(benchmarkResults.times, returned.timeElapsed),
     polynomialDegrees |->
        Append(benchmarkResults.polynomialDegrees,
               matchedDegree(returned.complexityMetrics.timeComplexity))]

\* the table displayBenchmarkResults writes: one row per entry of sizes
benchmarkRows(benchmarkResults) ==
    [i \in 1..Len(benchmarkResults.sizes) |->
        <<benchmarkResults.sizes[i],
          toFixed2(At(benchmarkResults.times, i - 1) * SCALE),
          toFixed2(At(benchmarkResults.polynomialDegrees, i - 1))>>]

\* the page after its script ran: the script ends with solveBtn.click(), with
\* the kind 'tsp' and the size 20 the form starts with
InitPage ==
    /\ tickStack = [d \in 1..DIMENSIONS |-> <<>>]
    /\ patternCache = <<>>
    /\ driftState = 0
    /\ lastTrace = NoTrace
    /\ prevTrace = NoTrace
    /\ appended = [d \in 1..DIMENSIONS |-> <<>>]
    /\ computedFor = <<>>
    /\ implementation = "index.html"
    /\ asked = generateProblem("tsp", 20)
    /\ \E call \in {page_solve(generateProblem("tsp", 20), 0, 0)} :
       \E elapsed \in PageElapsedTimes : \E random \in RandomDraws :
       /\ cycleCount = call.cycleCount
       /\ result = page_timedResult(call.result, generateProblem("tsp", 20), elapsed, random)
    /\ probe = [op |-> "page",
                benchmarkResults |-> NoBenchmarkResults,
                producers |-> <<>>,
                runs |-> <<>>,
                resultsDiv |-> [view |-> "results", size |-> 20]]

\* one iteration of the Benchmark handler's loop for run `run` at position
\* `at` of sizes, up to its await
BenchmarkIteration(run, at, problemType, cleared, producersBefore, runsBefore) ==
    \E problem \in {generateProblem(problemType, benchmarkSizes[at])} :
    \E call \in {page_solve(problem, cycleCount, driftState)} :
    \E elapsed \in PageElapsedTimes : \E random \in RandomDraws :
    \E returned \in {page_timedResult(call.result, problem, elapsed, random)} :
       /\ cycleCount' = call.cycleCount
       /\ result' = returned
       /\ asked' = problem
       /\ probe' = [probe EXCEPT
                       !.benchmarkResults = pushBenchmark(cleared, benchmarkSizes[at], returned),
                       !.producers = Append(producersBefore, run),
                       !.runs = [r \in 1..Max2(run, Len(runsBefore)) |->
                                    IF r = run
                                    THEN [problemType |-> problemType, next |-> at + 1]
                                    ELSE runsBefore[r]],
                       !.resultsDiv = [view |-> "progress", size |-> benchmarkSizes[at]]]

\* a click of the Benchmark button: the lists are cleared and the first
\* iteration runs
BenchmarkClick(problemType) ==
    /\ probe.op = "page"
    /\ Len(probe.runs) < MaxBenchmarkClicks
    /\ BenchmarkIteration(Len(probe.runs) + 1, 1, problemType, NoBenchmarkResults,
                          <<>>, probe.runs)
    /\ UNCHANGED <<tickStack, patternCache, driftState, lastTrace, prevTrace,
                   appended, computedFor, implementation>>

\* the timer of a suspended run fires: its next iteration runs, or, past the
\* last size, displayBenchmarkResults
BenchmarkResume(run) ==
    /\ probe.op = "page"
    /\ run \in 1..Len(probe.runs)
    /\ probe.runs[run].next <= Len(benchmarkSizes) + 1
    /\ IF probe.runs[run].next <= Len(benchmarkSizes)
       THEN BenchmarkIteration(run, probe.runs[run].next, probe.runs[run].problemType,
                               probe.benchmarkResults, probe.producers, probe.runs)
       ELSE /\ probe' = [probe EXCEPT
                           !.runs[run].next = Len(benchmarkSizes) + 2,
                           !.resultsDiv = [view |-> "benchmark", run |-> run,
                                           rows |-> benchmarkRows(probe.benchmarkResults)]]
            /\ UNCHANGED <<cycleCount, result, asked>>
    /\ UNCHANGED <<tickStack, patternCache, driftState, lastTrace, prevTrace,
                   appended, computedFor, implementation>>

\* a click of the Solve button with problemSize in the size field
SolveClick(problemType, problemSize) ==
    /\ probe.op = "page"
    /\ IF problemSize < 10 \/ problemSize > 1000
       THEN /\ probe' = [probe EXCEPT !.resultsDiv = [view |-> "error"]]
            /\ UNCHANGED <<cycleCount, result, asked>>
       ELSE \E problem \in {generateProblem(problemType, problemSize)} :
            \E call \in {page_solve(problem, cycleCount, driftState)} :
            \E elapsed \in PageElapsedTimes : \E random \in RandomDraws :
               /\ cycleCount' = call.cycleCount
               /\ result' = page_timedResult(call.result, problem, elapsed, random)
               /\ asked' = problem
               /\ probe' = [probe EXCEPT
                               !.resultsDiv = [view |-> "results", size |-> problemSize]]
    /\ UNCHANGED <<tickStack, patternCache, driftState, lastTrace, prevTrace,
                   appended, computedFor, implementation>>

NextPage ==
    \/ BenchmarkClick("graph-coloring")
    \/ \E run \in 1..MaxBenchmarkClicks : BenchmarkResume(run)
    \/ \E problemSize \in PageSizes : SolveClick("graph-coloring", problemSize)

SpecPage == InitPage /\ [][NextPage]_vars

(***************************************************************************)
(* Direct calls of the tour verifier and of the subset refinement          *)
(***************************************************************************)
\* the longest candidate path, and the most cities
MaxPathLen == 3

\* the entries of the candidate paths: -1 .. MaxPathLen
PathEntries == (0 - 1)..MaxPathLen

Paths == UNION {[1..len -> PathEntries] : len \in 0..MaxPathLen}

\* a Tour instance of n cities on a line
TourOf(n) == Tour(n, [k \in 1..n |-> Pt(k, 0)])

InitVerifyTour ==
    /\ Constructed
    /\ implementation \in {"solver.js", "index.html"}
    /\ probe \in {[op |-> "verify", solution |-> [path |-> path], problem |-> TourOf(n),
                   done |-> FALSE, valid |-> FALSE] :
                     path \in Paths, n \in 0..MaxPathLen}

\* this._verifySolution(solution, problem), on the solver of either file
VerifyTour ==
    /\ probe.op = "verify"
    /\ ~probe.done
    /\ probe' = [probe EXCEPT
                    !.done = TRUE,
                    !.valid = IF implementation = "solver.js"
                              THEN verifySolution(probe.solution, probe.problem)
                              ELSE page_verifySolution(probe.solution, probe.problem)]
    /\ UNCHANGED <<tickStack, patternCache, cycleCount, driftState, result, lastTrace,
                   prevTrace, appended, computedFor, implementation, asked>>

SpecVerifyTour == InitVerifyTour /\ [][VerifyTour]_vars

\* the longest number list
MaxNumbers == 3

\* the largest target
MaxTarget == 6

NumberPool == {0 - 2, 1, 3, 4}

InitRefine ==
    /\ Constructed
    /\ implementation = "solver.js"
    /\ probe \in UNION {
           {[op |-> "refine", numbers |-> numbers, target |-> target,
             initialSubset |-> initialSubset, done |-> FALSE,
             refined |-> subsetSolution(numbers, target, initialSubset)] :
               numbers \in [1..len -> NumberPool],
               initialSubset \in [1..len -> BOOLEAN],
               target \in 0..MaxTarget} : len \in 0..MaxNumbers}

\* this._refineSubsetSum(numbers, target, initialSubset, projections)
Refine ==
    /\ probe.op = "refine"
    /\ ~probe.done
    /\ probe' = [probe EXCEPT
                    !.done = TRUE,
                    !.refined = refineSubsetSum(probe.numbers, probe.target,
                                                probe.initialSubset)]
    /\ UNCHANGED <<tickStack, patternCache, cycleCount, driftState, result, lastTrace,
                   prevTrace, appended, computedFor, implementation, asked>>

SpecRefine == InitRefine /\ [][Refine]_vars

(***************************************************************************)
(* Claims                                                                  *)
(***************************************************************************)
\* |a - b| / b < 0.2
Within20(a, b) == b > 0 /\ 5 * Abs(a - b) < b

\* C1: two consecutive solve calls of the same kind whose sizes s1, s2 satisfy
\* |s1 - s2| / s2 < 0.2 share the pattern: the second call does not run the
\* analyzer and uses the first call's dimension pairs and correlation values.
C1_ConsecutiveReuse ==
    (/\ prevTrace.called
     /\ lastTrace.called
     /\ prevTrace.problem.type = lastTrace.problem.type
     /\ Within20(prevTrace.problem.size, lastTrace.problem.size))
    => /\ ~lastTrace.analyzed
       /\ lastTrace.patterns.primaryDimensions = prevTrace.patterns.primaryDimensions
       /\ lastTrace.patterns.correlationStrengths = prevTrace.patterns.correlationStrengths

\* C2: a solve call uses a cached pattern only if that pattern was computed for the
\* same kind and for a size s with |s - s'| / s' < 0.2, s' the size of the instance;
\* otherwise the pattern it uses is the one the analyzer computes from the histories.
C2_NoForeignPattern ==
    lastTrace.called =>
        IF lastTrace.analyzed
        THEN /\ lastTrace.origin.type = lastTrace.problem.type
             /\ lastTrace.origin.size = lastTrace.problem.size
             /\ lastTrace.patterns.primaryDimensions
                    = computePattern(<<>>, tickStack).primaryDimensions
        ELSE /\ lastTrace.origin.type = lastTrace.problem.type
             /\ Within20(lastTrace.origin.size, lastTrace.problem.size)

\* a call served from a cache that also holds entries of other kinds and sizes,
\* some of them with 3 dimension pairs
C2_Witness ==
    /\ lastTrace.called
    /\ ~lastTrace.analyzed
    /\ Cardinality(DOMAIN patternCache) >= 2
    /\ \E k \in DOMAIN patternCache :
          /\ computedFor[k].size # lastTrace.problem.size
          /\ Len(patternCache[k].primaryDimensions) = 3

\* the last `count` values of a list
LastOf(s, count) == SubSeq(s, Len(s) - Min2(count, Len(s)) + 1, Len(s))

\* C3: each of the 11 windows holds at most 100 values and is exactly the most
\* recent (up to 100) values pushed to that dimension, in push order.
C3_WindowIsRecent ==
    \A d \in 1..DIMENSIONS :
        /\ Len(tickStack[d]) <= TICK_CAPACITY
        /\ tickStack[d] = LastOf(appended[d], TICK_CAPACITY)

\* more than 100 values were pushed to a dimension and the oldest are gone
C3_Witness ==
    \E d \in 1..DIMENSIONS :
        /\ Len(appended[d]) > TICK_CAPACITY + 10
        /\ Len(tickStack[d]) = TICK_CAPACITY
        /\ tickStack[d][1] # appended[d][1]

\* path has length n and holds each of 0 .. n-1 exactly once
IsBijection(path, n) ==
    /\ Len(path) = n
    /\ \A city \in 0..(n - 1) : Cardinality({i \in 1..Len(path) : path[i] = city}) = 1

\* C4: for every Tour instance of n cities and every reachable state of the solver
\* (also one whose pattern has fewer than two dimension pairs), the path solve
\* returns has length n and holds each city index 0 .. n-1 exactly once.
C4_TourIsBijection ==
    (result.status = "returned" /\ asked.type = "tsp")
        => IsBijection(result.solution.path, Len(asked.cities))

\* the engine returned a tour of 3 or more cities from projections on a single
\* dimension pair (coordinates[1] is missing)
C4_Witness ==
    /\ implementation = "solver.js"
    /\ result.status = "returned"
    /\ asked.type = "tsp"
    /\ Len(asked.cities) >= 3
    /\ Len(lastTrace.projections) > 0
    /\ Len(lastTrace.patterns.primaryDimensions) = 1
    /\ IsBijection(result.solution.path, Len(asked.cities))

\* C5: the Tour verifier reports valid if and only if the candidate path has
\* length n, no duplicate entry, and exactly the entries 0 .. n-1.
C5_VerifierIsExact ==
    (probe.op = "verify" /\ probe.done)
        => (probe.valid <=> IsBijection(probe.solution.path, Len(probe.problem.cities)))

\* nodes i and j are joined by an entry of the adjacency matrix, either way round
Adjacent(graph, i, j) == i # j /\ (graph[i][j] = 1 \/ graph[j][i] = 1)

\* C6: if the result of a Coloring instance is reported valid, no two adjacent nodes
\* hold the same color and every color index is below maxColors.
C6_ValidMeansProper ==
    (result.status = "returned" /\ asked.type = "graph-coloring" /\ result.isValid)
        => /\ \A i \in 1..Len(asked.graph) : \A j \in 1..Len(asked.graph) :
                 Adjacent(asked.graph, i, j)
                    => result.solution.coloring[i] # result.solution.coloring[j]
           /\ \A i \in 1..Len(asked.graph) :
                 result.solution.coloring[i] < asked.maxColors

\* literal holds under the assignment: it names a variable of the assignment and
\* its sign is that variable's value
LiteralHolds(literal, assignment) ==
    \/ literal > 0 /\ literal <= Len(assignment) /\ assignment[literal]
    \/ literal < 0 /\ 0 - literal <= Len(assignment) /\ ~assignment[0 - literal]

\* every clause holds a literal that holds
BruteForceSatisfied(clauses, assignment) ==
    \A c \in 1..Len(clauses) :
        {l \in 1..Len(clauses[c]) : LiteralHolds(clauses[c][l], assignment)} # {}

\* C7: for a Satisfaction instance, the satisfied flag and the validity of the
\* result are true if and only if every clause has a literal whose polarity matches
\* the returned assignment; an empty clause and a literal outside the assignment
\* never count.
C7_SatisfiedIffBruteForce ==
    (result.status = "returned" /\ asked.type = "sat")
        => LET holds == BruteForceSatisfied(asked.clauses, result.solution.assignment)
           IN /\ result.solution.satisfied <=> holds
              /\ result.isValid <=> holds

\* the engine found an instance satisfied that has a literal outside the assignment
C7_Witness ==
    /\ implementation = "solver.js"
    /\ result.status = "returned"
    /\ asked.type = "sat"
    /\ result.solution.satisfied
    /\ \E c \in 1..Len(asked.clauses) : \E l \in 1..Len(asked.clauses[c]) :
          Abs(asked.clauses[c][l]) > asked.variables

\* C8: for the instance of 1 variable and the unit clause [1], in every reachable
\* engine state solve returns assignment[0] == true and satisfied == true.
C8_UnitClauseSatisfied ==
    (result.status = "returned" /\ asked.type = "sat"
        /\ asked.variables = 1 /\ asked.clauses = <<<<1>>>>)
        => /\ result.solution.assignment[1]
           /\ result.solution.satisfied

\* the sum of the numbers at a list of 0-based indices
RECURSIVE SumAt(_, _, _)
SumAt(numbers, indices, k) ==
    IF k > Len(indices) THEN 0
    ELSE numbers[indices[k] + 1] + SumAt(numbers, indices, k + 1)

\* C9: for a SubsetSelection instance, the result is reported valid if and only if
\* |sum - target| < 0.001 * target, sum being the sum of the numbers at the
\* returned indices; the reported sum and difference agree with those indices.
C9_ValidIffWithinTolerance ==
    (result.status = "returned" /\ asked.type = "subset-sum")
        => LET sum == SumAt(asked.numbers, result.solution.subset, 1)
           IN /\ result.isValid <=> 1000 * Abs(sum - asked.target) < asked.target
              /\ result.solution.sum = sum
              /\ result.solution.difference = Abs(sum - asked.target)

\* a result reported valid whose sum is not the target
C9_Witness ==
    /\ result.status = "returned"
    /\ asked.type = "subset-sum"
    /\ result.isValid
    /\ result.solution.difference > 0
    /\ Len(result.solution.subset) > 0

\* C10: the subset the refinement returns has |sum - target| no larger than that
\* of the subset it was given.
C10_RefinementNeverWorse ==
    (probe.op = "refine" /\ probe.done)
        => Abs(SumAt(probe.numbers, probe.refined.subset, 1) - probe.target)
              <= Abs(SumAt(probe.numbers, selectedIndices(probe.initialSubset), 1)
                       - probe.target)

\* a refinement that kept one flip and rejected another
C10_Witness ==
    /\ probe.op = "refine"
    /\ probe.done
    /\ Len(probe.numbers) >= 2
    /\ probe.refined.difference
          < calculateSubsetSumDiff(probe.numbers, probe.target, probe.initialSubset)
    /\ probe.refined.difference > 0
    /\ Cardinality({i \in 1..Len(probe.numbers) :
                      probe.initialSubset[i] # ((i - 1) \in Range(probe.refined.subset))}) = 1

\* C11: for numbers [1,2,3,4,5] and target 0, in every reachable state and whatever
\* subset the projection step selects, solve returns the empty subset with sum 0
\* and difference 0.
C11_ZeroTargetGivesEmpty ==
    /\ (result.status = "returned" /\ asked.type = "subset-sum")
          => /\ result.solution.subset = <<>>
             /\ result.solution.sum = 0
             /\ result.solution.difference = 0
    /\ \A selected \in [1..5 -> BOOLEAN] :
          LET solution == solveSubsetSumFrom(selected, Zero(1))
          IN solution.subset = <<>> /\ solution.sum = 0 /\ solution.difference = 0

\* the engine's projection step selected some numbers and solve returned none
C11_Witness ==
    /\ implementation = "solver.js"
    /\ result.status = "returned"
    /\ asked.type = "subset-sum"
    /\ \E i \in 1..5 : projectedSubset(lastTrace.projections, asked)[i]
    /\ result.solution.subset = <<>>

\* C12: a solve call on an instance whose kind is none of tsp, graph-coloring, sat,
\* subset-sum fails with the unsupported-kind error: the caller gets the error and
\* no result, and the call ran once (the cycle counter moved by 1).
C12_UnsupportedKindThrows ==
    /\ [](asked.type \notin (SupportedTypes \cup {"none"})
            => /\ result.status = "thrown"
               /\ result.error = "Unsupported problem type"
               /\ DOMAIN result = {"status", "error"})
    /\ [][asked'.type \notin SupportedTypes => cycleCount' = cycleCount + 1]_vars

\* an unknown kind failed on an engine that had returned a result before
C12_Witness ==
    /\ asked.type = "knapsack"
    /\ result.status = "thrown"
    /\ cycleCount >= 2
    /\ \E k \in DOMAIN computedFor : computedFor[k].type = "tsp"

\* C13: vector sampling fails with the invalid-dimension error whenever the
\* instance's dimension count is 0 or negative, and no candidate vector is
\* produced in that case.
C13_NonPositiveDimensionFails ==
    (asked.type # "none" /\ asked.dimensions <= 0)
        => /\ result.status = "thrown"
           /\ lastTrace = NoTrace

\* C14: a solve call on a well-formed instance of one of the four kinds returns,
\* in every reachable engine state, a result that carries a solution and a
\* boolean validity; it never raises an error
C14_WellFormedAlwaysReturns ==
    asked.type \in SupportedTypes =>
        /\ result.status = "returned"
        /\ {"solution", "isValid"} \subseteq DOMAIN result
        /\ result.isValid \in BOOLEAN

\* the first call of a fresh engine found no dimension pair and returned a
\* solution with validity false
C14_Witness ==
    /\ cycleCount = 1
    /\ lastTrace.called
    /\ lastTrace.analyzed
    /\ lastTrace.patterns.primaryDimensions = <<>>
    /\ result.status = "returned"
    /\ result.isValid = FALSE

\* the Euclidean distance of two cities, recomputed from their coordinates
Euclid(a, b) == Sqrt(((a.x - b.x) * (a.x - b.x) + (a.y - b.y) * (a.y - b.y)) * SCALE * SCALE)

\* the length of the n edges path[i] -> path[(i + 1) mod n], i = from .. n - 1
RECURSIVE CyclicLength(_, _, _)
CyclicLength(cities, path, from) ==
    LET n == Len(cities)
    IN IF from >= n THEN 0
       ELSE Euclid(cities[path[from + 1] + 1], cities[path[((from + 1) % n) + 1] + 1])
            + CyclicLength(cities, path, from + 1)

\* C15: the distance of a returned tour is the sum of the Euclidean lengths of
\* its n edges taken cyclically, the edge from the last city back to the first
\* included; on the square of side 10 that is 40 for a tour along the sides and
\* 20 + 2 * sqrt(200) for a tour over both diagonals
C15_DistanceIsCyclicSum ==
    (result.status = "returned" /\ asked.type = "tsp")
        => /\ result.solution.distance = CyclicLength(asked.cities, result.solution.path, 0)
           /\ asked.cities = Square
                 => result.solution.distance \in {40 * SCALE, 20 * SCALE + 2 * Sqrt(200 * SCALE * SCALE)}

\* the engine returned a tour of the square computed from projections
C15_Witness ==
    /\ implementation = "solver.js"
    /\ result.status = "returned"
    /\ asked.type = "tsp"
    /\ asked.cities = Square
    /\ Len(lastTrace.projections) > 0
    /\ result.solution.distance > 0
    /\ result.solution.distance = CyclicLength(Square, result.solution.path, 0)

C17_RepeatedCallReusesPattern ==
    [][(/\ lastTrace'.called
        /\ asked'.type \in SupportedTypes
        /\ \E k \in DOMAIN computedFor :
              /\ computedFor[k] = [type |-> asked'.type, size |-> asked'.size]
              /\ k = generateProblemKey(asked'))
          => /\ ~lastTrace'.analyzed
             /\ lastTrace'.patterns = patternCache[generateProblemKey(asked')]
             /\ patternCache' = patternCache]_vars

\* the engine has served exactly two calls, one after the other, for instances of
\* the same kind and size
TwoCallsOfOneKindAndSize ==
    /\ cycleCount = 2
    /\ lastTrace.called
    /\ prevTrace.called
    /\ lastTrace.problem.type = prevTrace.problem.type
    /\ lastTrace.problem.size = prevTrace.problem.size

C19_AtLeastOneProjection ==
    lastTrace.called =>
        LET all == lastTrace.patterns.vectorProjections
            top == lastTrace.projections
        IN /\ Len(top) = Min2(Max2(1, topCount(asked)), Len(all))
           /\ \A j \in 1..(Len(top) - 1) : ~Lt(top[j].value, top[j + 1].value)
           /\ \A j \in 1..Len(top) : \E k \in 1..Len(all) : top[j] = all[k]
           /\ Len(top) >= 1

\* pair p was discovered before pair q by the loops i = 0..9, j = i+1..10
DiscoveredBefore(p, q) == p[1] < q[1] \/ (p[1] = q[1] /\ p[2] < q[2])

\* at most 3 pairs (a, b), a < b, of indices 0..10, pairwise different, with one
\* coefficient each, by non-increasing absolute coefficient and, among equal
\* ones, in discovery order
WellOrderedPattern(pattern) ==
    LET pairs == pattern.primaryDimensions
        strengths == pattern.correlationStrengths
    IN /\ Len(pairs) <= 3
       /\ Len(strengths) = Len(pairs)
       /\ \A k \in 1..Len(pairs) :
             /\ pairs[k][1] \in 0..(DIMENSIONS - 1)
             /\ pairs[k][2] \in 0..(DIMENSIONS - 1)
             /\ pairs[k][1] < pairs[k][2]
       /\ \A j \in 1..Len(pairs) : \A k \in (j + 1)..Len(pairs) :
             /\ pairs[j] # pairs[k]
             /\ Abs(strengths[j]) >= Abs(strengths[k])
             /\ Abs(strengths[j]) = Abs(strengths[k]) => DiscoveredBefore(pairs[j], pairs[k])

\* C20: every pattern the analyzer computes and every pattern the cache holds has
\* at most 3 dimension pairs (a, b), a < b in [0, 11), pairwise different, ordered
\* by non-increasing absolute correlation with equal ones in discovery order, and
\* its k-th coefficient is the correlation of its k-th pair
C20_PatternPairsOrdered ==
    /\ \A key \in DOMAIN patternCache : WellOrderedPattern(patternCache[key])
    /\ (lastTrace.called /\ lastTrace.analyzed) =>
          /\ WellOrderedPattern(lastTrace.patterns)
          /\ \A k \in 1..Len(lastTrace.patterns.primaryDimensions) :
                LET pair == lastTrace.patterns.primaryDimensions[k]
                IN lastTrace.patterns.correlationStrengths[k] =
                      calculateCorrelation(lastTen(tickStack[pair[1] + 1]),
                                           lastTen(tickStack[pair[2] + 1]))

\* the analyzer computed a pattern of 3 pairs whose coefficients differ in
\* absolute value, and the cache holds it
C20_Witness ==
    /\ lastTrace.called
    /\ lastTrace.analyzed
    /\ Len(lastTrace.patterns.primaryDimensions) = 3
    /\ Abs(lastTrace.patterns.correlationStrengths[1])
          > Abs(lastTrace.patterns.correlationStrengths[3])
    /\ \E key \in DOMAIN patternCache : patternCache[key] = lastTrace.patterns

\* the pairs (a, b), a < b, whose two histories hold more than 10 samples
QualifyingPairs ==
    {pair \in (0..(DIMENSIONS - 1)) \X (0..(DIMENSIONS - 1)) :
        /\ pair[1] < pair[2]
        /\ Len(tickStack[pair[1] + 1]) > 10
        /\ Len(tickStack[pair[2] + 1]) > 10}

\* the 10 most recent samples of a history of 10 samples or more
TenMostRecent(history) == [k \in 1..10 |-> history[Len(history) - 10 + k]]

\* C21: a pair enters a computed pattern only if both its histories hold more
\* than 10 samples at analysis time, its coefficient is the correlation of the
\* last 10 samples of each; with fewer than 3 qualifying pairs the pattern holds
\* exactly those, and every projection has one coordinate per pair
C21_PairsNeedElevenSamples ==
    (lastTrace.called /\ lastTrace.analyzed) =>
        LET pairs == lastTrace.patterns.primaryDimensions
            strengths == lastTrace.patterns.correlationStrengths
            projections == lastTrace.patterns.vectorProjections
        IN /\ \A k \in 1..Len(pairs) :
                 /\ pairs[k] \in QualifyingPairs
                 /\ strengths[k] =
                       calculateCorrelation(TenMostRecent(tickStack[pairs[k][1] + 1]),
                                            TenMostRecent(tickStack[pairs[k][2] + 1]))
           /\ Len(pairs) = Min2(3, Cardinality(QualifyingPairs))
           /\ Cardinality(QualifyingPairs) < 3 => Range(pairs) = QualifyingPairs
           /\ \A v \in 1..Len(projections) : Len(projections[v].coordinates) = Len(pairs)

\* the analyzer found the single pair (0, 1) while another history held exactly
\* 10 samples, and projected the call's vectors on that pair
C21_Witness ==
    /\ lastTrace.called
    /\ lastTrace.analyzed
    /\ lastTrace.patterns.primaryDimensions = <<(<<0, 1>>)>>
    /\ \E d \in 1..DIMENSIONS : Len(tickStack[d]) = 10
    /\ Len(lastTrace.patterns.vectorProjections) > 0

\* the score of each color for node i when the penalty of 100 is counted once for
\* each neighbor j < i that holds the color, and for no other node
ScoresByColoredNeighbors(projections, problem, coloring, i) ==
    LET unpenalized == nodeValuesOf(projections, problem,
                                    [k \in 1..Len(problem.graph) |-> 0 - 2], i)
    IN [c \in 1..problem.maxColors |->
          Add(unpenalized[c],
              100 * SCALE * Cardinality({j \in 1..i : /\ problem.graph[i + 1][j] = 1
                                                      /\ coloring[j] = c - 1}))]

\* C22: node i receives the color of minimum score, lowest index first, where
\* the score of color c is its projected value plus 100 for each neighbor j < i
\* already colored c, and nothing for a node not yet colored
C22_PenaltyForColoredNeighborsOnly ==
    (implementation = "solver.js" /\ result.status = "returned"
        /\ asked.type = "graph-coloring")
        => \A i \in 0..(Len(asked.graph) - 1) :
              result.solution.coloring[i + 1] =
                 indexOfMin(ScoresByColoredNeighbors(lastTrace.projections, asked,
                                                     result.solution.coloring, i))

\* |sum - target| of the numbers at the positions `members` holds
DistanceOf(numbers, target, members) ==
    Abs(SumAt(numbers, selectedIndices(members), 1) - target)

\* the membership list the refinement returned
RefinedMembers == [i \in 1..Len(probe.numbers) |-> (i - 1) \in Range(probe.refined.subset)]

\* the subset the loop holds when it reaches position i: the kept flips before i
\* applied to the subset it was given
BeforeFlip(i) ==
    [j \in 1..Len(probe.numbers) |->
        IF j < i THEN RefinedMembers[j] ELSE probe.initialSubset[j]]

\* C23 (as stated): the flip of index i is kept exactly if the subset given to
\* the refinement, with only index i flipped, is nearer to the target than the
\* subset given, whatever flips of earlier indices were kept
C23_FlipAgainstBaseline ==
    (probe.op = "refine" /\ probe.done) =>
        \A i \in 1..Len(probe.numbers) :
            (RefinedMembers[i] # probe.initialSubset[i])
               <=> DistanceOf(probe.numbers, probe.target,
                              [probe.initialSubset EXCEPT ![i] = ~probe.initialSubset[i]])
                      < DistanceOf(probe.numbers, probe.target, probe.initialSubset)

\* C23 (amended): the flip of index i is kept exactly if the best subset so far,
\* which is the subset given with every kept flip of an earlier index applied,
\* gets nearer to the target when index i is flipped in it
C23_FlipAgainstBestSoFar ==
    (probe.op = "refine" /\ probe.done) =>
        \A i \in 1..Len(probe.numbers) :
            (RefinedMembers[i] # probe.initialSubset[i])
               <=> DistanceOf(probe.numbers, probe.target,
                              [BeforeFlip(i) EXCEPT ![i] = ~BeforeFlip(i)[i]])
                      < DistanceOf(probe.numbers, probe.target, BeforeFlip(i))

\* the flip of an earlier index was kept, and a later flip that brings the
\* subset given nearer to the target was not
C23_Witness ==
    /\ probe.op = "refine"
    /\ probe.done
    /\ \E i \in 1..Len(probe.numbers) : \E k \in (i + 1)..Len(probe.numbers) :
          /\ RefinedMembers[i] # probe.initialSubset[i]
          /\ RefinedMembers[k] = probe.initialSubset[k]
          /\ DistanceOf(probe.numbers, probe.target,
                        [probe.initialSubset EXCEPT ![k] = ~probe.initialSubset[k]])
                < DistanceOf(probe.numbers, probe.target, probe.initialSubset)

C25_CacheNeverShrinks ==
    [][/\ DOMAIN patternCache \subseteq DOMAIN patternCache'
       /\ DOMAIN patternCache' \subseteq DOMAIN patternCache \cup {generateProblemKey(asked')}
       /\ \A key \in DOMAIN patternCache :
             key # generateProblemKey(asked') => patternCache'[key] = patternCache[key]]_vars

\* a call replaced the pattern of its own key while the cache held another key
C25_Witness ==
    /\ lastTrace.called
    /\ lastTrace.analyzed
    /\ cycleCount = 3
    /\ Cardinality(DOMAIN patternCache) = 2
    /\ prevTrace.called
    /\ prevTrace.problem = lastTrace.problem
    /\ prevTrace.patterns # lastTrace.patterns

\* C26: a call for an unsupported kind fails after the drift and pattern stages:
\* when the error is thrown the cycle counter has advanced by 1, every history
\* has received one value per candidate vector, and the cache holds a pattern
\* under the key of the unsupported kind; nothing is rolled back
C26_FailureKeepsStateChanges ==
    [][asked'.type \notin SupportedTypes =>
          /\ result'.status = "thrown"
          /\ cycleCount' = cycleCount + 1
          /\ driftState' = driftStateAt(cycleCount')
          /\ \A d \in 1..DIMENSIONS :
                /\ Len(appended'[d]) = Len(appended[d]) + vectorCount(asked')
                /\ tickStack'[d] =
                      LastOf(tickStack[d]
                                \o SubSeq(appended'[d], Len(appended[d]) + 1, Len(appended'[d])),
                             TICK_CAPACITY)
          /\ generateProblemKey(asked') \in DOMAIN patternCache'
          /\ lastTrace'.called
          /\ patternCache'[generateProblemKey(asked')] = lastTrace'.patterns]_vars

\* the first call of an engine failed for the kind "knapsack" and left 13 values
\* in each history and a pattern in the cache
C26_Witness ==
    /\ asked.type = "knapsack"
    /\ result.status = "thrown"
    /\ cycleCount = 1
    /\ \A d \in 1..DIMENSIONS : Len(tickStack[d]) = 13
    /\ DOMAIN patternCache = {generateProblemKey(asked)}

\* C27: on an engine whose instances all have 11 dimensions or more, the 11
\* histories have the same length in every state, and every pattern the analyzer
\* computed has no pair or 3 pairs
C27_ZeroOrThreePairs ==
    /\ \A d \in 1..DIMENSIONS : Len(tickStack[d]) = Len(tickStack[1])
    /\ (lastTrace.called /\ lastTrace.analyzed) =>
          Len(lastTrace.patterns.primaryDimensions)
             = IF Len(tickStack[1]) > 10 THEN 3 ELSE 0
    /\ \A key \in DOMAIN patternCache : Len(patternCache[key].primaryDimensions) \in {0, 3}

\* a call of 12 dimensions computed a pattern of 3 pairs, and the cache holds a
\* pattern without pairs as well
C27_Witness ==
    /\ lastTrace.called
    /\ lastTrace.analyzed
    /\ asked.dimensions = 12
    /\ Len(lastTrace.patterns.primaryDimensions) = 3
    /\ \E key \in DOMAIN patternCache : patternCache[key].primaryDimensions = <<>>

\* C28: for the kinds tsp and sat, the pattern stored by the first call for a key
\* stays in the cache unchanged, and every later call for that key with the same
\* instance returns the solution of the first call
C28_EntryIsWriteOnce ==
    probe.op = "ledger" =>
        /\ \A key \in DOMAIN probe.created :
              probe.created[key].problem.type \in {"tsp", "sat"}
                 => /\ key \in DOMAIN patternCache
                    /\ patternCache[key] = probe.created[key].patterns
        /\ (asked.type \in {"tsp", "sat"} /\ result.status = "returned") =>
              LET first == probe.created[generateProblemKey(asked)]
              IN first.problem = asked => result.solution = first.solution

\* the third call repeats the first one, a call for another key in between; it
\* reused the pattern without pairs of the fresh engine although the histories
\* now hold more than 10 samples
C28_Witness ==
    /\ probe.op = "ledger"
    /\ cycleCount = 3
    /\ asked.type = "tsp"
    /\ lastTrace.called
    /\ ~lastTrace.analyzed
    /\ prevTrace.problem # asked
    /\ generateProblemKey(prevTrace.problem) # generateProblemKey(asked)
    /\ probe.created[generateProblemKey(asked)].problem = asked
    /\ lastTrace.patterns.primaryDimensions = <<>>
    /\ Len(tickStack[1]) > 10
    /\ result.solution = probe.created[generateProblemKey(asked)].solution

\* C29: for a SubsetSelection instance whose target is 0 or negative no call
\* reports validity true, not even when the sum of the returned subset is the
\* target
C29_NonPositiveTargetNeverValid ==
    (result.status = "returned" /\ asked.type = "subset-sum" /\ asked.target <= 0)
        => result.isValid = FALSE

\* the engine returned a subset whose sum is the negative target, with validity
\* false
C29_Witness ==
    /\ implementation = "solver.js"
    /\ result.status = "returned"
    /\ asked.type = "subset-sum"
    /\ asked.target < 0
    /\ result.solution.subset # <<>>
    /\ result.solution.sum = asked.target
    /\ result.solution.difference = 0
    /\ result.isValid = FALSE

(***************************************************************************)
(* C30: in the page driver, whenever a benchmark run reaches               *)
(* displayBenchmarkResults, benchmarkResults holds exactly one entry per   *)
(* size of [10, 20, 30, 50, 75, 100], in that order and all pushed by that *)
(* run, and its sizes, times and polynomialDegrees have the same length;   *)
(* also when the Benchmark or the Solve button was clicked while an        *)
(* earlier run was suspended at its await.  The state right after the      *)
(* display shows the table (resultsDiv.view = "benchmark") next to the     *)
(* record the table was written from.                                      *)
(***************************************************************************)
C30_DisplayShowsOwnRun ==
    (probe.op = "page" /\ probe.resultsDiv.view = "benchmark") =>
        /\ probe.benchmarkResults.sizes = benchmarkSizes
        /\ \A i \in 1..Len(probe.producers) : probe.producers[i] = probe.resultsDiv.run
        /\ Len(probe.benchmarkResults.times) = Len(probe.benchmarkResults.sizes)
        /\ Len(probe.benchmarkResults.polynomialDegrees) = Len(probe.benchmarkResults.sizes)

=============================================================================
